---------------------------- MODULE Spec2Model ----------------------------
(***************************************************************************)
(* A model of pycppqed's Blitz-array text codec (io._numpy2blitz,          *)
(* io._blitz2numpy, BlitzArray._str2dim/_dim2str/_str2data/_data2str) and  *)
(* of its C++QED output-file scanners (io._parse_cppqed,                   *)
(* CppqedOutputReader.read/_parsedatastr, Cppqed.load), of the            *)
(* StateVector constructors and of the Animation window.                   *)
(*                                                                         *)
(* Text is a sequence of one-character strings.  Positions are 0-based and *)
(* slices are half-open, as in the Python source, so that cursor           *)
(* arithmetic such as "pos = arrayendpos+2" reads as in the code.          *)
(*                                                                         *)
(* A Python function whose body binds intermediate values is written as a  *)
(* chain of operators, each taking the values bound so far as parameters.  *)
(***************************************************************************)
EXTENDS Integers, Sequences, FiniteSets, TLC

VARIABLES
    dimOrig,    \* dimension codec: the input the run started from
    dimCur,     \* dimension codec: the current value (spec, string or error)
    dimOps,     \* dimension codec: the operations applied so far
    cLib,       \* array codec: the library in use, "io" or "BlitzArray"
    cPc,        \* array codec: "array", "text", "done" or "error"
    cArr,       \* array codec: the array given to the encoder
    cText,      \* array codec: the text to decode
    cOut,       \* array codec: what the decoder returned, [ok, arr]
    cSv,        \* state-vector file: its name, ciobin, the time saved and loaded
    cDims,      \* BlitzArray of data.py: the dimensions given and those kept
    sFile,      \* scanner: the header and the items the file was built from
    sImpl,      \* scanner: "io", "reader" or "Cppqed", the scanning code
    sClient,    \* scanner: the handlers it is called with
    sBuf,       \* scanner: the text of the file
    sPc,        \* scanner: "header", "scan", "done" or "error"
    sPos,       \* scanner: the cursor pos; in io.py the offset of the line
    sHead,      \* scanner: the comment section stored or handed on
    sData,      \* scanner: the data section
    sEvents,    \* scanner: the handler calls made, in order
    sRecs,      \* client: the rows kept (evs, traj, trajectory)
    sSvs,       \* client: the state vectors kept (svs, arrays)
    sFiles,     \* client: the files written, [name, text] each
    sStage,     \* caller: which call of a sequence of calls is running
    sKept,      \* caller: what the earlier calls returned
    vClass,     \* state vector: the module of the StateVector class
    vPc,        \* state vector: "new", "built", "reduced", "error"
    vData,      \* state vector: the data argument, an integer array
    vArgs,      \* state vector: the kind of data, the time given, data.time
    vSv,        \* state vector: the attributes dimensions and time
    vRed,       \* state vector: the indices reduced and the result
    aSteps,     \* animation: steps, the number of frames
    aStep,      \* animation: step, the current frame
    aPlay,      \* animation: _play, "False", "None" or "source" (a source id)
    aButton,    \* animation: the play button, [plays, stock]
    aIdle,      \* animation: the idle callbacks registered with the main loop
    aLast,      \* animation: the last event of the user
    aInputs,    \* animation: the number of events of the user so far
    aDraws      \* animation: the steps the canvas was asked to draw by the
                \* last handler, in order

dimVars == <<dimOrig, dimCur, dimOps>>
codecVars == <<cLib, cPc, cArr, cText, cOut, cSv, cDims>>
stageVars == <<sStage, sKept>>
scanVars ==
    <<sFile, sImpl, sClient, sBuf, sPc, sPos, sHead, sData, sEvents, sRecs, sSvs,
      sFiles, stageVars>>
vecVars == <<vClass, vPc, vData, vArgs, vSv, vRed>>
animVars == <<aSteps, aStep, aPlay, aButton, aIdle, aLast, aInputs, aDraws>>
vars ==
    <<dimOrig, dimCur, dimOps, cLib, cPc, cArr, cText, cOut, cSv, cDims,
      sFile, sImpl, sClient, sBuf, sPc, sPos, sHead, sData, sEvents, sRecs, sSvs,
      sFiles, sStage, sKept, vClass, vPc, vData, vArgs, vSv, vRed,
      aSteps, aStep, aPlay, aButton, aIdle, aLast, aInputs, aDraws>>

----------------------------------------------------------------------------
(* Python string primitives                                                 *)

Min2(a, b) == IF a <= b THEN a ELSE b
Max2(a, b) == IF a >= b THEN a ELSE b
SetMin(S) == CHOOSE i \in S : \A j \in S : i <= j
SetMax(S) == CHOOSE i \in S : \A j \in S : i >= j
MinOrNone(S) == IF S = {} THEN -1 ELSE SetMin(S)
MaxOrNone(S) == IF S = {} THEN -1 ELSE SetMax(S)

\* A slice bound i of a sequence of length n: negative bounds count from
\* the end, and every bound is clipped to 0..n
SliceBound(i, n) == IF i < 0 THEN Max2(n + i, 0) ELSE Min2(i, n)
SliceBetween(s, lo, hi) == IF lo >= hi THEN <<>> ELSE SubSeq(s, lo + 1, hi)

\* s[a:b]
PySlice(s, a, b) == SliceBetween(s, SliceBound(a, Len(s)), SliceBound(b, Len(s)))

\* s[a:]
PyFrom(s, a) == SliceBetween(s, SliceBound(a, Len(s)), Len(s))

\* s[:b]
PyTo(s, b) == SliceBetween(s, 0, SliceBound(b, Len(s)))

\* sub occurs in s at 0-based position i
MatchAt(s, sub, i) ==
    /\ i >= 0
    /\ i + Len(sub) <= Len(s)
    /\ \A k \in 1..Len(sub) : s[i + k] = sub[k]

\* s.find(sub, start): the lowest position >= start, or -1; a negative
\* start counts from the end
str_find(s, sub, start) ==
    MinOrNone({i \in SliceBound(start, Len(s))..(Len(s) - Len(sub)) : MatchAt(s, sub, i)})

\* s.rfind(sub): the highest position, or -1
str_rfind(s, sub) ==
    MaxOrNone({i \in 0..(Len(s) - Len(sub)) : MatchAt(s, sub, i)})

str_startswith(s, p) == MatchAt(s, p, 0)
str_endswith(s, p) == MatchAt(s, p, Len(s) - Len(p))

\* s.replace(old, new): left to right, non-overlapping
RECURSIVE str_replace(_, _, _), ReplaceAt(_, _, _, _)
str_replace(s, old, new) == ReplaceAt(s, old, new, str_find(s, old, 0))
ReplaceAt(s, old, new, i) ==
    IF i = -1 THEN s
    ELSE PyTo(s, i) \o new \o str_replace(PyFrom(s, i + Len(old)), old, new)

\* s.split(sep)
RECURSIVE str_split(_, _), SplitAt(_, _, _)
str_split(s, sep) == SplitAt(s, sep, str_find(s, sep, 0))
SplitAt(s, sep, i) ==
    IF i = -1 THEN <<s>>
    ELSE <<PyTo(s, i)>> \o str_split(PyFrom(s, i + Len(sep)), sep)

\* The two pieces of s around the occurrence of sep at i, or s alone
CutAt(s, sep, i) ==
    IF i = -1 THEN <<s>> ELSE <<PyTo(s, i), PyFrom(s, i + Len(sep))>>

\* s.split(sep, 1)
str_split1(s, sep) == CutAt(s, sep, str_find(s, sep, 0))

\* s.rsplit(sep, 1)
str_rsplit1(s, sep) == CutAt(s, sep, str_rfind(s, sep))

\* s.splitlines(): lines without their newline, no empty last line
RECURSIVE str_splitlines(_), SplitLinesAt(_, _)
str_splitlines(s) ==
    IF s = <<>> THEN <<>> ELSE SplitLinesAt(s, str_find(s, <<"\n">>, 0))
SplitLinesAt(s, i) ==
    IF i = -1 THEN <<s>> ELSE <<PyTo(s, i)>> \o str_splitlines(PyFrom(s, i + 1))

Whitespace == {" ", "\t", "\n"}
IsSpace(c) == c \in Whitespace

\* The first position (1-based) of s holding a character of the set cs,
\* or Len(s) + 1
FirstIn(s, cs) == MinOrNone({i \in 1..Len(s) : s[i] \in cs} \cup {Len(s) + 1})
FirstNotIn(s, cs) == MinOrNone({i \in 1..Len(s) : s[i] \notin cs} \cup {Len(s) + 1})
LastNotIn(s, cs) == MaxOrNone({i \in 1..Len(s) : s[i] \notin cs} \cup {0})

\* s.split(): fields separated by runs of whitespace
RECURSIVE str_splitws(_), SplitWsAt(_, _)
str_splitws(s) ==
    IF s = <<>> THEN <<>>
    ELSE IF IsSpace(s[1]) THEN str_splitws(Tail(s))
    ELSE SplitWsAt(s, FirstIn(s, Whitespace))
SplitWsAt(s, e) == <<SubSeq(s, 1, e - 1)>> \o str_splitws(SubSeq(s, e, Len(s)))

\* s.rstrip(chars)
str_rstrip(s, chars) == SubSeq(s, 1, LastNotIn(s, chars))

\* s.strip(chars)
str_strip(s, chars) == SubSeq(s, FirstNotIn(s, chars), LastNotIn(s, chars))

\* sep.join(parts)
RECURSIVE str_join(_, _)
str_join(parts, sep) ==
    IF parts = <<>> THEN <<>>
    ELSE IF Len(parts) = 1 THEN parts[1]
    ELSE parts[1] \o sep \o str_join(Tail(parts), sep)

----------------------------------------------------------------------------
(* Python integers as text, and the values eval() builds                    *)

DigitChars == <<"0", "1", "2", "3", "4", "5", "6", "7", "8", "9">>
DigitSet == {"0", "1", "2", "3", "4", "5", "6", "7", "8", "9"}
IsDigit(c) == c \in DigitSet
DigitVal(c) == (CHOOSE d \in 1..10 : DigitChars[d] = c) - 1

RECURSIVE NatStr(_)
NatStr(n) ==
    IF n < 10 THEN <<DigitChars[n + 1]>>
    ELSE NatStr(n \div 10) \o <<DigitChars[(n % 10) + 1]>>

\* "%s" % n for an integer n
IntStr(n) == IF n < 0 THEN <<"-">> \o NatStr(0 - n) ELSE NatStr(n)

\* A Python value: an integer, or a tuple of values.
PyInt(n) == [tup |-> FALSE, n |-> n, items |-> <<>>]
PyTuple(items) == [tup |-> TRUE, n |-> 0, items |-> items]
PyPair(lo, hi) == PyTuple(<<PyInt(lo), PyInt(hi)>>)

\* str(v)
RECURSIVE PyStr(_)
PyStr(v) ==
    IF ~v.tup THEN IntStr(v.n)
    ELSE IF Len(v.items) = 1 THEN <<"(">> \o PyStr(v.items[1]) \o <<",", ")">>
    ELSE <<"(">>
         \o str_join([i \in 1..Len(v.items) |-> PyStr(v.items[i])], <<",", " ">>)
         \o <<")">>

\* The tokens of a Python expression over integers, parentheses and commas.
\* Whitespace separates tokens; any other character is a token eval rejects.
RECURSIVE py_tokens(_), IntToken(_, _)
py_tokens(s) ==
    IF s = <<>> THEN <<>>
    ELSE IF IsSpace(s[1]) THEN py_tokens(Tail(s))
    ELSE IF s[1] \in {"(", ")", ",", "-"} THEN
        <<[k |-> s[1], v |-> <<>>]>> \o py_tokens(Tail(s))
    ELSE IF IsDigit(s[1]) THEN IntToken(s, FirstNotIn(s, DigitSet))
    ELSE <<[k |-> "bad", v |-> <<s[1]>>]>> \o py_tokens(Tail(s))
IntToken(s, e) ==
    <<[k |-> "int", v |-> SubSeq(s, 1, e - 1)]>> \o py_tokens(SubSeq(s, e, Len(s)))

RECURSIVE DigitsVal(_, _)
DigitsVal(ds, base) ==
    IF ds = <<>> THEN 0
    ELSE DigitsVal(SubSeq(ds, 1, Len(ds) - 1), base) * base + DigitVal(ds[Len(ds)])

\* An integer literal of Python 2: a leading 0 makes it octal.
IntLiteralOk(ds) ==
    Len(ds) = 1 \/ ds[1] # "0" \/ \A i \in 1..Len(ds) : DigitVal(ds[i]) < 8
IntLiteralVal(ds) ==
    IF Len(ds) > 1 /\ ds[1] = "0" THEN DigitsVal(ds, 8) ELSE DigitsVal(ds, 10)

PyFail == [ok |-> FALSE, val |-> PyInt(0), next |-> 0]
PyOk(v, next) == [ok |-> TRUE, val |-> v, next |-> next]

\* py_expr parses one expression at token i; py_items the rest of a
\* parenthesised form after "(".  "(a)" is a, "(a,)" and "(a,b)" are tuples.
RECURSIVE py_expr(_, _), py_items(_, _, _), py_negate(_), py_item(_, _, _)
py_expr(toks, i) ==
    IF i > Len(toks) THEN PyFail
    ELSE IF toks[i].k = "int" THEN
        IF IntLiteralOk(toks[i].v)
        THEN PyOk(PyInt(IntLiteralVal(toks[i].v)), i + 1) ELSE PyFail
    ELSE IF toks[i].k = "-" THEN py_negate(py_expr(toks, i + 1))
    ELSE IF toks[i].k = "(" THEN
        IF i + 1 <= Len(toks) /\ toks[i + 1].k = ")"
        THEN PyOk(PyTuple(<<>>), i + 2)
        ELSE py_items(toks, i + 1, <<>>)
    ELSE PyFail

py_negate(r) ==
    IF r.ok /\ ~r.val.tup THEN PyOk(PyInt(0 - r.val.n), r.next) ELSE PyFail

py_items(toks, i, acc) == py_item(toks, acc, py_expr(toks, i))

py_item(toks, acc, r) ==
    IF ~r.ok \/ r.next > Len(toks) THEN PyFail
    ELSE IF toks[r.next].k = ")" THEN
        PyOk(IF acc = <<>> THEN r.val ELSE PyTuple(Append(acc, r.val)), r.next + 1)
    ELSE IF toks[r.next].k = "," THEN
        IF r.next + 1 <= Len(toks) /\ toks[r.next + 1].k = ")"
        THEN PyOk(PyTuple(Append(acc, r.val)), r.next + 2)
        ELSE py_items(toks, r.next + 1, Append(acc, r.val))
    ELSE PyFail

EvalFail == [ok |-> FALSE, val |-> PyInt(0)]
EvalResult(r, n) ==
    IF r.ok /\ r.next = n + 1 THEN [ok |-> TRUE, val |-> r.val] ELSE EvalFail
EvalTokens(inner) ==
    IF inner = <<>> THEN EvalFail
    ELSE EvalResult(
            py_expr(<<[k |-> "(", v |-> <<>>]>> \o inner \o <<[k |-> ")", v |-> <<>>]>>, 1),
            Len(inner) + 2)

\* eval(s): the expression list s, which is what "(" s ")" denotes when s is
\* not empty.  The result is [ok, val].
py_eval(s) == EvalTokens(py_tokens(s))

----------------------------------------------------------------------------
(* The dimension-string codec                                               *)

SepX == <<" ", "x", " ">>

\* BlitzArray._str2dim, and the same expression inlined in io._blitz2numpy
_str2dim(dimstr) ==
    py_eval(<<"(">> \o str_replace(dimstr, SepX, <<",">>) \o <<",", ")">>)

\* "(%s,%s)" % d: d must be a tuple of exactly two values
FormatPair_spaced(d) ==
    IF d.tup /\ Len(d.items) = 2
    THEN [ok |-> TRUE,
          str |-> <<"(">> \o PyStr(d.items[1]) \o <<",", " ">> \o PyStr(d.items[2])
                  \o <<")">>]
    ELSE [ok |-> FALSE, str |-> <<>>]

FormatPair(d) ==
    IF d.tup /\ Len(d.items) = 2
    THEN [ok |-> TRUE,
          str |-> <<"(">> \o PyStr(d.items[1]) \o <<",">> \o PyStr(d.items[2]) \o <<")">>]
    ELSE [ok |-> FALSE, str |-> <<>>]

StrFail == [ok |-> FALSE, str |-> <<>>]
StrOk(s) == [ok |-> TRUE, str |-> s]

JoinSegs(segs, sep) ==
    IF \E i \in 1..Len(segs) : ~segs[i].ok THEN StrFail
    ELSE StrOk(str_join([i \in 1..Len(segs) |-> segs[i].str], sep))

_dim2str_nospace(dimensions) ==
    IF ~dimensions.tup THEN StrFail
    ELSE JoinSegs([i \in 1..Len(dimensions.items) |-> FormatPair(dimensions.items[i])],
                  <<"x">>)

\* BlitzArray._dim2str and statevector._dim2str: [ok, str]
_dim2str(dimensions) ==
    IF ~dimensions.tup THEN StrFail
    ELSE JoinSegs([i \in 1..Len(dimensions.items) |-> FormatPair(dimensions.items[i])],
                  SepX)

----------------------------------------------------------------------------
(* Python floats as text                                                    *)
(*                                                                          *)
(* A finite float is the decimal 0.m1m2...mk * 10^e with sign neg: m is its *)
(* sequence of significant digits, without leading or trailing zeros, and   *)
(* zero has no digits.  Two floats are numerically equal exactly when their *)
(* records are equal.  Non-finite values and the negative zero are not part *)
(* of the inputs enumerated below.                                          *)

FloatZero == [neg |-> FALSE, m |-> <<>>, e |-> 0]

RECURSIVE NormFloat(_, _, _)
NormFloat(neg, ds, e) ==
    IF ds = <<>> THEN FloatZero
    ELSE IF ds[1] = 0 THEN NormFloat(neg, Tail(ds), e - 1)
    ELSE IF ds[Len(ds)] = 0 THEN NormFloat(neg, SubSeq(ds, 1, Len(ds) - 1), e)
    ELSE [neg |-> neg, m |-> ds, e |-> e]

RECURSIVE NatDigits(_)
NatDigits(n) == IF n < 10 THEN <<n>> ELSE Append(NatDigits(n \div 10), n % 10)

\* The float whose value is the integer n
FloatOfDigits(neg, ds) == NormFloat(neg, ds, Len(ds))
IntFloat(n) == FloatOfDigits(n < 0, NatDigits(IF n < 0 THEN 0 - n ELSE n))

DigitsStr(ds) == [i \in 1..Len(ds) |-> DigitChars[ds[i] + 1]]
Zeros(n) == [i \in 1..n |-> "0"]

\* ds + 1 on a digit sequence; c is the carry out of the first digit
RECURSIVE IncDigits(_), IncCarry(_)
IncDigits(ds) ==
    IF ds = <<>> THEN [d |-> <<>>, c |-> TRUE]
    ELSE IF ds[Len(ds)] < 9
    THEN [d |-> Append(SubSeq(ds, 1, Len(ds) - 1), ds[Len(ds)] + 1), c |-> FALSE]
    ELSE IncCarry(IncDigits(SubSeq(ds, 1, Len(ds) - 1)))
IncCarry(r) == [d |-> Append(r.d, 0), c |-> r.c]

\* The digits m, longer than p, round away from zero at p digits
RoundsUp(m, p) ==
    m[p + 1] > 5 \/ (m[p + 1] = 5 /\ (Len(m) > p + 1 \/ m[p] % 2 = 1))
RoundedUp(x, r) ==
    IF r.c THEN NormFloat(x.neg, <<1>> \o r.d, x.e + 1) ELSE NormFloat(x.neg, r.d, x.e)

\* The float x rounded to p significant decimal digits
RoundSig(x, p) ==
    IF Len(x.m) <= p THEN x
    ELSE IF RoundsUp(x.m, p) THEN RoundedUp(x, IncDigits(SubSeq(x.m, 1, p)))
    ELSE NormFloat(x.neg, SubSeq(x.m, 1, p), x.e)

\* The number of significant digits str() keeps of a float (Python 2)
FloatStrPrecision == 12

FloatFixed(m, e) ==
    IF e <= 0 THEN <<"0", ".">> \o Zeros(0 - e) \o DigitsStr(m)
    ELSE IF Len(m) <= e THEN DigitsStr(m) \o Zeros(e - Len(m)) \o <<".", "0">>
    ELSE DigitsStr(SubSeq(m, 1, e)) \o <<".">> \o DigitsStr(SubSeq(m, e + 1, Len(m)))

FloatSci(m, X) ==
    DigitsStr(<<m[1]>>)
    \o (IF Len(m) > 1 THEN <<".">> \o DigitsStr(Tail(m)) ELSE <<>>)
    \o (IF X < 0 THEN <<"e", "-">> ELSE <<"e", "+">>)
    \o (IF X > -10 /\ X < 10 THEN <<"0">> ELSE <<>>)
    \o NatStr(IF X < 0 THEN 0 - X ELSE X)

\* "%.12g" of the rounded non-zero float r, with ".0" added to a bare integer
FloatRepr(r) ==
    (IF r.neg THEN <<"-">> ELSE <<>>)
    \o (IF r.e - 1 < -4 \/ r.e - 1 >= FloatStrPrecision
        THEN FloatSci(r.m, r.e - 1) ELSE FloatFixed(r.m, r.e))

\* "%s" % x for a float x
FloatStr(x) ==
    IF x.m = <<>> THEN <<"0", ".", "0">> ELSE FloatRepr(RoundSig(x, FloatStrPrecision))

\* The number of decimals "%06f" keeps
FixedPlaces == 6

\* The non-zero float x rounded to n decimals
RoundPlaces(x, n) ==
    IF x.e + n < 0 THEN FloatZero
    ELSE IF x.e + n = 0
    THEN (IF x.m[1] > 5 \/ (x.m[1] = 5 /\ Len(x.m) > 1)
          THEN [neg |-> x.neg, m |-> <<1>>, e |-> 1 - n] ELSE FloatZero)
    ELSE RoundSig(x, x.e + n)

\* The decimal text s, which has a point, filled with zeros up to n decimals
PadPlaces(s, n) == s \o Zeros(n - (Len(s) - str_find(s, <<".">>, 0) - 1))

FixedOfRounded(neg, r, n) ==
    IF r.m = <<>> THEN (IF neg THEN <<"-">> ELSE <<>>) \o <<"0", ".">> \o Zeros(n)
    ELSE (IF neg THEN <<"-">> ELSE <<>>) \o PadPlaces(FloatFixed(r.m, r.e), n)

\* "%06f" % x for a float x
FloatFixedStr(x) ==
    IF x.m = <<>> THEN <<"0", ".">> \o Zeros(FixedPlaces)
    ELSE FixedOfRounded(x.neg, RoundPlaces(x, FixedPlaces), FixedPlaces)

\* "%s" % n for a numpy integer held as the float x
IntFloatStr(x) ==
    (IF x.neg THEN <<"-">> ELSE <<>>)
    \o (IF x.m = <<>> THEN <<"0">> ELSE DigitsStr(x.m) \o Zeros(x.e - Len(x.m)))

AllDigits(s) == \A i \in 1..Len(s) : IsDigit(s[i])
CharDigits(s) == [i \in 1..Len(s) |-> DigitVal(s[i])]

FloatFail == [ok |-> FALSE, v |-> FloatZero]

HasMinus(t) == t # <<>> /\ t[1] = "-"
DropSign(t) == IF t # <<>> /\ t[1] \in {"-", "+"} THEN Tail(t) ELSE t

\* Decimal digits with an optional sign, as int() and the exponent after
\* "e" take them: [ok, v]
IntOfDigits(eneg, edigs) ==
    IF edigs = <<>> \/ ~AllDigits(edigs) THEN [ok |-> FALSE, v |-> 0]
    ELSE [ok |-> TRUE,
          v |-> IF eneg THEN 0 - DigitsVal(edigs, 10) ELSE DigitsVal(edigs, 10)]
IntOfText(expt) == IntOfDigits(HasMinus(expt), DropSign(expt))

FloatValue(neg, int, frac, ex) ==
    IF ex.ok /\ AllDigits(int) /\ AllDigits(frac) /\ Len(int) + Len(frac) > 0
    THEN [ok |-> TRUE,
          v |-> NormFloat(neg, CharDigits(int) \o CharDigits(frac), Len(int) + ex.v)]
    ELSE FloatFail

FloatIntFrac(neg, mant, ex, ip) ==
    FloatValue(neg,
               IF ip = -1 THEN mant ELSE PyTo(mant, ip),
               IF ip = -1 THEN <<>> ELSE PyFrom(mant, ip + 1),
               ex)

FloatMantissa(neg, mant, ex) == FloatIntFrac(neg, mant, ex, str_find(mant, <<".">>, 0))

FloatParts(neg, u, ie) ==
    FloatMantissa(neg,
                  IF ie = -1 THEN u ELSE PyTo(u, ie),
                  IntOfText(IF ie = -1 THEN <<"0">> ELSE PyFrom(u, ie + 1)))

FloatUnsigned(neg, u) == FloatParts(neg, u, str_find(u, <<"e">>, 0))
FloatStripped(t) == FloatUnsigned(HasMinus(t), DropSign(t))

\* float(s): [sign] digits [. digits] [e [sign] digits], whitespace around
\* it; the result is [ok, v]
float(s) == FloatStripped(str_strip(s, Whitespace))

Cplx(re, im) == [re |-> re, im |-> im]

----------------------------------------------------------------------------
(* numpy arrays: a shape and the elements in row-major order                *)

RECURSIVE Product(_)
Product(q) == IF q = <<>> THEN 1 ELSE q[1] * Product(Tail(q))

NdArray(shape, data, dtype) == [shape |-> shape, data |-> data, dtype |-> dtype]
NoArray == NdArray(<<>>, <<>>, "none")

\* The i-th (0-based) of the blocks of stride elements of a
Block(a, i, stride) ==
    NdArray(Tail(a.shape), SubSeq(a.data, i * stride + 1, (i + 1) * stride), a.dtype)

\* array[i], 0-based, for an array of rank >= 1
SubArr(a, i) == Block(a, i, Product(Tail(a.shape)))

ReshapeFail == [ok |-> FALSE, shape |-> <<>>]

\* The one extent given as -1 is inferred from the product of the others
ReshapeInfer(n, dims, known) ==
    IF known > 0 /\ n % known = 0
    THEN [ok |-> TRUE,
          shape |-> [i \in 1..Len(dims) |-> IF dims[i] < 0 THEN n \div known ELSE dims[i]]]
    ELSE ReshapeFail

ReshapeNeg(n, dims, neg) ==
    IF neg = {} THEN [ok |-> Product(dims) = n, shape |-> dims]
    ELSE IF Cardinality(neg) = 1 /\ (\A i \in neg : dims[i] = -1)
    THEN ReshapeInfer(n, dims,
                      Product([i \in 1..Len(dims) |-> IF i \in neg THEN 1 ELSE dims[i]]))
    ELSE ReshapeFail

\* numpy.ndarray.reshape(*dims) of n elements: the new shape, or no shape
numpy_reshape(n, dims) == ReshapeNeg(n, dims, {i \in 1..Len(dims) : dims[i] < 0})

----------------------------------------------------------------------------
(* The array-block codec of io.py                                           *)

RowSep == <<" ", "\n", " ", " ">>
TokenSep == <<")", " ", "(">>
RowJoint == <<" ", "\n", " ">>

NumStr(x, dtype) == IF dtype = "int" THEN IntFloatStr(x) ELSE FloatStr(x)

\* "(%s,%s)" % (number.real, number.imag)
TokenStr(c, dtype) ==
    <<"(">> \o NumStr(c.re, dtype) \o <<",">> \o NumStr(c.im, dtype) \o <<")">>

\* _numpy2blitz.data1D
data1D(a) ==
    str_join([i \in 1..Len(a.data) |-> TokenStr(a.data[i], a.dtype)], <<" ">>)

data2D_newline(a) ==
    str_join([i \in 1..a.shape[1] |-> data1D(SubArr(a, i - 1))], <<"\n">>)

\* The rows written last to first
data2D_reversed(a) ==
    str_join([i \in 1..a.shape[1] |-> data1D(SubArr(a, a.shape[1] - i))], RowSep)

\* _numpy2blitz.data2D
data2D(a) ==
    str_join([i \in 1..a.shape[1] |-> data1D(SubArr(a, i - 1))], RowSep)

\* _numpy2blitz.dataMD; dimensions is a sequence of pairs <<lo, hi>>
RECURSIVE dataMD(_, _)
dataMD(a, dimensions) ==
    IF Len(dimensions) - 1 > 2
    THEN str_join([i \in 1..(dimensions[1][2] - dimensions[1][1] + 1) |->
                     dataMD(SubArr(a, i - 1), Tail(dimensions))], RowSep)
    ELSE str_join([i \in 1..(dimensions[1][2] - dimensions[1][1] + 1) |->
                     data2D(SubArr(a, i - 1))], RowSep)

\* dimensions = [(0, dim-1) for dim in array.shape]
ShapeDimensions(shape) == [i \in 1..Len(shape) |-> <<0, shape[i] - 1>>]

\* dims = ["(%s,%s)" % d for d in dimensions]
DimSegs(dimensions) ==
    [i \in 1..Len(dimensions) |->
        <<"(">> \o IntStr(dimensions[i][1]) \o <<",">> \o IntStr(dimensions[i][2])
        \o <<")">>]

BlitzData(array, dimensions) ==
    IF Len(dimensions) = 1 THEN data1D(array)
    ELSE IF Len(dimensions) = 2 THEN data2D(array)
    ELSE dataMD(array, dimensions)

BlitzText(array, dimensions) ==
    str_join(DimSegs(dimensions), SepX) \o <<" ", "\n", "[", " ">>
    \o BlitzData(array, dimensions) \o <<" ", "]", "\n", "\n">>

\* An encoder whose datastr starts out as the empty string
_numpy2blitz_initialised(array) ==
    IF Len(array.shape) = 0 THEN StrOk(<<" ", "\n", "[", " ", " ", "]", "\n", "\n">>)
    ELSE StrOk(BlitzText(array, ShapeDimensions(array.shape)))

\* io._numpy2blitz: [ok, str]; an array of rank 0 leaves datastr unassigned
_numpy2blitz(array) ==
    IF Len(array.shape) = 0 THEN StrFail
    ELSE StrOk(BlitzText(array, ShapeDimensions(array.shape)))

\* d[1] - d[0] + 1 for each d of the evaluated dimension tuple
DimExtentOk(d) ==
    d.tup /\ Len(d.items) >= 2 /\ ~d.items[1].tup /\ ~d.items[2].tup
DimExtent(d) == d.items[2].n - d.items[1].n + 1

EntryFail == [ok |-> FALSE, c |-> Cplx(FloatZero, FloatZero)]
EntryOfFloats(re, im) ==
    IF re.ok /\ im.ok THEN [ok |-> TRUE, c |-> Cplx(re.v, im.v)] ELSE EntryFail
\* An unpacking that takes the first two parts and drops the others
EntryOfParts_lenient(parts) ==
    IF Len(parts) < 2 THEN EntryFail
    ELSE EntryOfFloats(float(parts[1]), float(parts[2]))

EntryOfParts(parts) ==
    IF Len(parts) # 2 THEN EntryFail
    ELSE EntryOfFloats(float(parts[1]), float(parts[2]))

\* complex(float(re), float(im)) for "re, im = entry.split(',')"
EntryValue(entry) == EntryOfParts(str_split(entry, <<",">>))

DecodeFail == [ok |-> FALSE, arr |-> NoArray]

\* array.reshape(*dims); slots no token filled keep what numpy.empty left
Reshaped(shaped, entries, length, stale) ==
    IF ~shaped.ok THEN DecodeFail
    ELSE [ok |-> TRUE,
          arr |-> NdArray(shaped.shape,
                          [i \in 1..length |->
                             IF i <= Len(entries) THEN entries[i].c ELSE stale],
                          "complex")]

\* "for n, entry in enumerate(data): array[n] = complex(...)"
Filled(entries, dims, length, stale) ==
    IF \E i \in 1..Len(entries) : ~entries[i].ok \/ i > length THEN DecodeFail
    ELSE Reshaped(numpy_reshape(length, dims), entries, length, stale)

\* array = numpy.empty(length)
Fill(data, dims, length, stale) ==
    IF length < 0 THEN DecodeFail
    ELSE Filled([i \in 1..Len(data) |-> EntryValue(data[i])], dims, length, stale)

\* length = reduce(mul, dims), the loop over the tokens, and the reshape
FillAndReshape(data, dims, stale) ==
    IF dims = <<>> THEN DecodeFail ELSE Fill(data, dims, Product(dims), stale)

\* dims = [d[1]-d[0]+1 for d in dimensions]
DecodeDims(ds, data, stale) ==
    IF \E i \in 1..Len(ds) : ~DimExtentOk(ds[i]) THEN DecodeFail
    ELSE FillAndReshape(data, [i \in 1..Len(ds) |-> DimExtent(ds[i])], stale)

DecodeEval(dimensions, data, stale) ==
    IF ~dimensions.ok \/ ~dimensions.val.tup THEN DecodeFail
    ELSE DecodeDims(dimensions.val.items, data, stale)

\* datastr.replace(" \n ", "")[3:-3].split(") (")
BodyTokens(datastr) ==
    str_split(PySlice(str_replace(datastr, RowJoint, <<>>), 3, -3), TokenSep)

\* datastr.replace(" \n ", "").rstrip("\n")[3:-3].split(") (")
BodyTokens_rstrip(datastr) ==
    str_split(PySlice(str_rstrip(str_replace(datastr, RowJoint, <<>>), {"\n"}), 3, -3),
              TokenSep)

BlitzParts(parts, stale) ==
    IF Len(parts) # 2 THEN DecodeFail
    ELSE DecodeEval(_str2dim(parts[1]), BodyTokens_rstrip(parts[2]), stale)

\* io._blitz2numpy without the cio extension: [ok, arr]
_blitz2numpy(blitzstr, stale) == BlitzParts(str_split1(blitzstr, <<"\n">>), stale)

\* BlitzArray._str2data without the cdata extension
_str2data(datastr, dimensions, stale) ==
    IF ~dimensions.tup THEN DecodeFail
    ELSE DecodeDims(dimensions.items, BodyTokens(datastr), stale)

BlitzArray_evaluated(datastr, dimensions, stale) ==
    IF ~dimensions.ok THEN DecodeFail ELSE _str2data(datastr, dimensions.val, stale)

\* BlitzArray.__init__(data, dimensions) with both arguments strings
BlitzArray_init(datastr, dimstr, stale) ==
    BlitzArray_evaluated(datastr, _str2dim(dimstr), stale)

----------------------------------------------------------------------------
(* Inputs of the dimension codec                                            *)

MaxDimRank == 3
MaxDimOps == 2
DimVals == {-12, 0, 3, 9}

\* All sequences over S of length 1..n
RECURSIVE SeqsOfLen(_, _)
SeqsOfLen(S, n) ==
    IF n = 0 THEN {<<>>} ELSE {Append(q, x) : q \in SeqsOfLen(S, n - 1), x \in S}
SeqsUpTo(S, n) == UNION {SeqsOfLen(S, k) : k \in 1..n}

DimPairs == {PyPair(lo, hi) : lo \in DimVals, hi \in {h \in DimVals : TRUE}}
GoodDimPairs == {p \in DimPairs : p.items[2].n >= p.items[1].n}
DimSpecs == {PyTuple(q) : q \in SeqsUpTo(GoodDimPairs, MaxDimRank)}

\* Segments written out character by character: well-formed ones, and ones
\* that are not a pair lo,hi with hi >= lo.
CanonSegs ==
    { <<"(", "0", ",", "3", ")">>,
      <<"(", "0", ",", "9", ")">>,
      <<"(", "0", ",", "1", ")">>,
      <<"(", "-", "2", ",", "1", "0", ")">> }
OneNumberSeg == <<"(", "5", ")">>
ThreeNumberSeg == <<"(", "0", ",", "1", ",", "2", ")">>
ReversedSeg == <<"(", "3", ",", "1", ")">>
WordSeg == <<"(", "a", ",", "1", ")">>
BadSegs == {OneNumberSeg, ThreeNumberSeg, ReversedSeg, WordSeg}

EmptySpec == PyTuple(<<>>)
DimOfSpec(d) == [kind |-> "spec", spec |-> d, str |-> <<>>, canon |-> TRUE]
DimOfStr(segs) ==
    [kind |-> "str", spec |-> EmptySpec, str |-> str_join(segs, SepX),
     canon |-> \A i \in 1..Len(segs) : segs[i] \in CanonSegs]
DimError == [kind |-> "error", spec |-> EmptySpec, str |-> <<>>, canon |-> FALSE]
NoDim == [kind |-> "none", spec |-> EmptySpec, str |-> <<>>, canon |-> FALSE]

\* What a call returned becomes the current value, an exception the error
Rendered(r, canon) ==
    IF r.ok THEN [kind |-> "str", spec |-> EmptySpec, str |-> r.str, canon |-> canon]
    ELSE DimError
Parsed(r, canon) ==
    IF r.ok THEN [kind |-> "spec", spec |-> r.val, str |-> <<>>, canon |-> canon]
    ELSE DimError

DimInputs ==
    {DimOfSpec(d) : d \in DimSpecs}
    \cup {DimOfStr(q) : q \in SeqsUpTo(CanonSegs \cup BadSegs, MaxDimRank)}

DimStart ==
    /\ dimOrig \in DimInputs
    /\ dimCur = dimOrig
    /\ dimOps = <<>>

DimIdle ==
    /\ dimOrig = NoDim
    /\ dimCur = NoDim
    /\ dimOps = <<>>

\* _dim2str applied to the current dimension spec
DimRender ==
    /\ dimCur.kind = "spec"
    /\ Len(dimOps) < MaxDimOps
    /\ dimCur' = Rendered(_dim2str(dimCur.spec), dimCur.canon)
    /\ dimOps' = Append(dimOps, "render")
    /\ UNCHANGED <<dimOrig, codecVars, scanVars, vecVars, animVars>>

\* _str2dim applied to the current dimension string
DimParse ==
    /\ dimCur.kind = "str"
    /\ Len(dimOps) < MaxDimOps
    /\ dimCur' = Parsed(_str2dim(dimCur.str), dimCur.canon)
    /\ dimOps' = Append(dimOps, "parse")
    /\ UNCHANGED <<dimOrig, codecVars, scanVars, vecVars, animVars>>

DimNext == DimRender \/ DimParse

----------------------------------------------------------------------------
(* The array-block codec of BlitzArray (pycppqed/data.py)                   *)

\* BlitzArray._data2str.data2D
BlitzArray_data2D(a) ==
    str_join([i \in 1..a.shape[1] |-> data1D(SubArr(a, i - 1))], RowSep)

\* BlitzArray._data2str.dataMD: [ok, str]
RECURSIVE BlitzArray_dataMD(_, _)
BlitzArray_dataMD(a, dimensions) ==
    IF Len(dimensions) - 1 > 2
    THEN JoinSegs([i \in 1..(dimensions[1][2] - dimensions[1][1]) |->
                     BlitzArray_dataMD(SubArr(a, i - 1), Tail(dimensions))], <<"\n">>)
    ELSE IF Len(dimensions) - 1 = 2
    THEN StrOk(str_join([i \in 1..(dimensions[1][2] - dimensions[1][1] + 1) |->
                           BlitzArray_data2D(SubArr(a, i - 1))], RowSep))
    ELSE StrFail

\* "[ %s ]" % datastr
Bracketed(r) ==
    IF r.ok THEN StrOk(<<"[", " ">> \o r.str \o <<" ", "]">>) ELSE StrFail

\* BlitzArray._data2str: [ok, str]; below rank 2 datastr stays unassigned
_data2str(a, dimensions) ==
    IF Len(dimensions) = 2 THEN Bracketed(StrOk(BlitzArray_data2D(a)))
    ELSE IF Len(dimensions) > 2 THEN Bracketed(BlitzArray_dataMD(a, dimensions))
    ELSE StrFail

\* The dimension tuple StateVector.__init__ derives from the shape of its data
PyDimensions(dimensions) ==
    PyTuple([i \in 1..Len(dimensions) |-> PyPair(dimensions[i][1], dimensions[i][2])])

AsciiOf(head, body) ==
    IF head.ok /\ body.ok THEN StrOk(head.str \o <<"\n">> \o body.str) ELSE StrFail

\* BlitzArray.ascii of a StateVector built from the array a: [ok, str]
BlitzArray_ascii(a) ==
    AsciiOf(_dim2str(PyDimensions(ShapeDimensions(a.shape))),
            _data2str(a, ShapeDimensions(a.shape)))

BlitzArray_ofparts(parts, stale) ==
    IF Len(parts) # 2 THEN DecodeFail ELSE BlitzArray_init(parts[2], parts[1], stale)

\* convert2python.sv_handler: the block text split at its first newline and
\* handed to StateVector(datastr, dimstr, t)
BlitzArray_fromtext(svstr, stale) ==
    BlitzArray_ofparts(str_split1(svstr, <<"\n">>), stale)

----------------------------------------------------------------------------
(* State-vector files (io.py)                                               *)

\* "\n# %s 1\n" % sv.time
TimeLine(time) ==
    <<"\n", "#", " ">> \o NumStr(time.v, time.dtype) \o <<" ", "1", "\n">>

\* What save_statevector writes to a text file: [ok, str]
SavedText(block, time) ==
    IF block.ok THEN StrOk(block.str \o TimeLine(time)) ELSE StrFail

SvFail == [ok |-> FALSE, arr |-> NoArray, t |-> FloatFail]

\* statevector.StateVector(ba, float(time))
SvLoaded(ba, time) ==
    IF ba.ok /\ time.ok THEN [ok |-> TRUE, arr |-> ba.arr, t |-> time] ELSE SvFail

\* time = commentstr[2:commentstr.find(" ", 3)]; ba = _blitz2numpy(datastr)
SvOfParts(commentstr, datastr, stale) ==
    SvLoaded(_blitz2numpy(datastr, stale),
             float(PySlice(commentstr, 2, str_find(commentstr, <<" ">>, 3))))

\* The comment line comes first: commentstr, datastr = buf.split("\n", 1)
SvCommentFirst(parts, stale) ==
    IF Len(parts) # 2 THEN SvFail ELSE SvOfParts(parts[1], parts[2], stale)

\* The comment line comes last:
\* datastr, commentstr = buf.rstrip(" \n\t").rsplit("\n", 1), and datastr is
\* cut at its first "#"
SvCommentLast(parts, stale) ==
    IF Len(parts) # 2 THEN SvFail
    ELSE IF ~str_startswith(parts[2], <<"#", " ">>) THEN SvFail
    ELSE SvOfParts(parts[2], str_split1(parts[1], <<"#">>)[1], stale)

\* load_statevector on a text file holding buf: [ok, arr, t]
load_statevector_buf(buf, stale) ==
    IF str_startswith(buf, <<"#", " ">>)
    THEN SvCommentFirst(str_split1(buf, <<"\n">>), stale)
    ELSE SvCommentLast(str_rsplit1(str_rstrip(buf, {" ", "\n", "\t"}), <<"\n">>), stale)

----------------------------------------------------------------------------
(* Inputs of the array codec                                                *)

MaxRank == 5
MaxElems == 8
MaxRawRank == 2
MaxTokens == 4

\* The shapes of rank r whose extents are positive with product <= budget
RECURSIVE ShapesWithin(_, _)
ShapesWithin(r, budget) ==
    IF r = 0 THEN {<<>>}
    ELSE UNION {{<<n>> \o q : q \in ShapesWithin(r - 1, budget \div n)} :
                n \in 1..budget}

Shapes == UNION {ShapesWithin(r, MaxElems) : r \in 1..MaxRank}

Flt(neg, m, e) == [neg |-> neg, m |-> m, e |-> e]

\* 1234567890123.0 and 0.9999999999999 have 13 significant digits.
Thirteen == Flt(FALSE, <<1, 2, 3, 4, 5, 6, 7, 8, 9, 0, 1, 2, 3>>, 13)
Nines == Flt(FALSE, <<9, 9, 9, 9, 9, 9, 9, 9, 9, 9, 9, 9, 9>>, 0)
Twelve == Flt(FALSE, <<1, 2, 3, 4, 5, 6, 7, 8, 9, 0, 1, 2>>, 12)

SpecialValues ==
    << Cplx(Flt(FALSE, <<2, 5>>, 1), Flt(TRUE, <<1>>, -2)),
       Cplx(Flt(FALSE, <<1>>, 17), Flt(FALSE, <<1, 5>>, -6)),
       Cplx(Twelve, Flt(TRUE, <<1>>, -4)),
       Cplx(Thirteen, FloatZero),
       Cplx(FloatZero, Nines) >>

\* numpy.arange(n).reshape(shape), as in test_io.py
ArangeArray(shape) ==
    NdArray(shape, [i \in 1..Product(shape) |-> Cplx(IntFloat(i - 1), FloatZero)], "int")

\* A complex array holding one special value at position p
SpecialArray(shape, p, k) ==
    NdArray(shape,
            [i \in 1..Product(shape) |->
               IF i = p THEN SpecialValues[k]
               ELSE Cplx(IntFloat(i - 1), IntFloat(0 - i))],
            "complex")

ArrayInputs ==
    {ArangeArray(sh) : sh \in Shapes \cup {<<>>}}
    \cup {SpecialArray(sh, p, k) :
            sh \in Shapes, p \in {1}, k \in 1..Len(SpecialValues)}

\* Texts given to the decoder directly: a dimension line of well-formed or
\* malformed segments, then a body of k tokens, k chosen independently.
RawSegs ==
    { <<"(", "0", ",", "0", ")">>,
      <<"(", "0", ",", "1", ")">>,
      <<"(", "1", ",", "3", ")">>,
      OneNumberSeg, ThreeNumberSeg, ReversedSeg }

RawBody(k) ==
    <<"[", " ">>
    \o str_join([i \in 1..k |-> TokenStr(Cplx(IntFloat(i), IntFloat(0 - i)), "complex")],
                <<" ">>)
    \o <<" ", "]">>

RawTextOf(q, k, tail) == str_join(q, SepX) \o <<"\n">> \o RawBody(k) \o tail

RawTexts ==
    {RawTextOf(q, k, tail) :
        q \in SeqsUpTo(RawSegs, MaxRawRank), k \in 1..MaxTokens,
        tail \in {<<>>, <<"\n">>}}

\* Bodies with one token that is not "re,im": text that is no number, a
\* missing comma, an extra comma
BadTokens ==
    { <<"(", "a", "b", "c", ")">>,
      <<"(", "1", ".", "0", " ", "2", ".", "0", ")">>,
      <<"(", "1", ".", "0", ",", "2", ".", "0", ",", "3", ".", "0", ")">>,
      <<"(", "x", ",", "1", ".", "0", ")">>,
      <<"(", "1", ".", "0", ",", "y", ")">> }

GoodToken(i) == TokenStr(Cplx(IntFloat(i), IntFloat(0 - i)), "complex")

\* k tokens, the p-th of them bad
BadBody(k, p, bad) ==
    <<"[", " ">>
    \o str_join([i \in 1..k |-> IF i = p THEN bad ELSE GoodToken(i)], <<" ">>)
    \o <<" ", "]">>

\* The dimension line "(0,n-1)", then such a body
BadTokenText(n, kp, bad, tail) ==
    <<"(", "0", ",">> \o NatStr(n - 1) \o <<")", "\n">>
    \o BadBody(kp[1], kp[2], bad) \o tail

BadTokenTexts ==
    {BadTokenText(n, kp, bad, tail) :
        n \in 1..MaxTokens,
        kp \in {c \in (1..MaxTokens) \X (1..MaxTokens) : c[2] <= c[1]},
        bad \in BadTokens, tail \in {<<>>, <<"\n">>}}

\* The block of the documentation: a 2x2 array in two lines
ExampleText ==
    << "(", "0", ",", "1", ")", " ", "x", " ", "(", "0", ",", "1", ")", "\n",
       "[", " ", "(", "1", ",", "2", ")", " ", "(", "3", ",", "4", ")", " ",
       "\n", " ", " ", "(", "5", ",", "6", ")", " ", "(", "7", ",", "8", ")",
       " ", "]" >>
ExampleArray ==
    NdArray(<<2, 2>>,
            [i \in 1..4 |-> Cplx(IntFloat(2 * i - 1), IntFloat(2 * i))], "complex")

\* What numpy.empty may have left in a slot that is never assigned
StaleValues == {Cplx(FloatZero, FloatZero), Cplx(Nines, Thirteen)}

NoResult == [ok |-> FALSE, arr |-> NoArray]

\* No state-vector file is involved
NoTime == [dtype |-> "none", v |-> FloatZero]
NoSv ==
    [name |-> "none", ciobin |-> FALSE, time |-> NoTime, opened |-> FALSE,
     t |-> FloatFail]

\* The dimensions of a BlitzArray: the string given, and the tuple kept
NoDims == [str |-> <<>>, ok |-> FALSE, val |-> PyTuple(<<>>)]
DimsGiven(dimstr) == [str |-> dimstr, ok |-> FALSE, val |-> PyTuple(<<>>)]
DimsKept(dimstr, dimensions) ==
    [str |-> dimstr, ok |-> dimensions.ok /\ dimensions.val.tup,
     val |-> IF dimensions.ok /\ dimensions.val.tup THEN dimensions.val
             ELSE PyTuple(<<>>)]

CodecStart ==
    /\ cLib \in {"io", "BlitzArray"}
    /\ cOut = NoResult
    /\ cSv = NoSv
    /\ cDims = NoDims
    /\ \/ /\ cPc = "array"
          /\ cArr \in ArrayInputs
          /\ cText = <<>>
       \/ /\ cPc = "text"
          /\ cArr = NoArray
          /\ cText \in RawTexts \cup BadTokenTexts \cup {ExampleText}

\* The times of the state vectors saved: an integer, a float, a float of
\* 13 significant digits
SvTimes ==
    { [dtype |-> "int", v |-> IntFloat(1)],
      [dtype |-> "float", v |-> Flt(FALSE, <<1, 2>>, 1)],
      [dtype |-> "float", v |-> Thirteen] }

\* A state-vector file with its comment line first, as split_cppqed writes it
SvFileText ==
    << "#", " ", "1", ".", "5", " ", "1", "\n", "(", "0", ",", "1", ")",
       "\n", "[", " ", "(", "1", ",", "0", ")", " ", "(", "0", ",", "1", ")",
       " ", "]", "\n" >>

SvFile(name, ciobin, time) ==
    [name |-> name, ciobin |-> ciobin, time |-> time, opened |-> FALSE,
     t |-> FloatFail]

MaxSvRank == 4

\* The arguments of the docstring of BlitzArray, and of its description of
\* the dimensions
UnspacedDims == str_join(<<<<"(", "0", ",", "1", ")">>, <<"(", "0", ",", "1", ")">>>>, <<"x">>)
SpacedDims == str_join(<<<<"(", "0", ",", "1", ")">>, <<"(", "0", ",", "1", ")">>>>, SepX)
ExampleBody == PyFrom(ExampleText, Len(SpacedDims) + 1)
ColumnBody ==
    << "[", " ", "(", "1", ",", "0", ")", " ", "(", "0", ",", "1", ")", " ", "]" >>

\* BlitzArray(dimensions, data) with strings for both
BlitzArrayStart ==
    /\ cLib = "data"
    /\ cPc = "args"
    /\ cArr = NoArray
    /\ cOut = NoResult
    /\ cSv = NoSv
    /\ \E dimstr \in {UnspacedDims, SpacedDims, <<"(", "0", ",", "1", ")">>, WordSeg} :
           cDims = DimsGiven(dimstr)
    /\ cText \in {ExampleBody, ColumnBody}

\* A state vector to save and load again, or a file to load
StateVectorStart ==
    /\ cLib = "statevector"
    /\ cDims = NoDims
    /\ cOut = NoResult
    /\ \/ /\ cPc = "array"
          /\ cArr \in {a \in ArrayInputs : Len(a.shape) <= MaxSvRank}
          /\ cText = <<>>
          /\ cSv \in {SvFile("sv", FALSE, time) : time \in SvTimes}
       \/ /\ cPc = "array"
          /\ cArr = ArangeArray(<<2>>)
          /\ cText = <<>>
          /\ cSv \in {SvFile("svbin", ciobin, time) :
                        ciobin \in BOOLEAN, time \in SvTimes}
       \/ /\ cPc = "text"
          /\ cArr = NoArray
          /\ cText = SvFileText
          /\ cSv \in {SvFile(name, ciobin, NoTime) :
                        name \in {"sv", "svbin"}, ciobin \in BOOLEAN}

CodecIdle ==
    /\ cLib = "none"
    /\ cPc = "idle"
    /\ cArr = NoArray
    /\ cText = <<>>
    /\ cOut = NoResult
    /\ cSv = NoSv
    /\ cDims = NoDims

\* What load_statevector returned is kept: the array and its time
SvReturned(r) ==
    /\ cOut' = [ok |-> r.ok, arr |-> r.arr]
    /\ cSv' = [cSv EXCEPT !.opened = TRUE, !.t = r.t]

\* The text a call returned is what is decoded next
Encoded(r) ==
    /\ cText' = r.str
    /\ cPc' = IF r.ok THEN "text" ELSE "error"

\* io._numpy2blitz(array), or BlitzArray.ascii()
Encode ==
    /\ cLib \in {"io", "BlitzArray"}
    /\ cPc = "array"
    /\ Encoded(IF cLib = "io" THEN _numpy2blitz(cArr) ELSE BlitzArray_ascii(cArr))
    /\ UNCHANGED <<cLib, cArr, cOut, cSv, cDims, dimVars, scanVars, vecVars, animVars>>

\* io._blitz2numpy(blitzstr), or BlitzArray built from the block text
Decode ==
    /\ cLib \in {"io", "BlitzArray"}
    /\ cPc = "text"
    /\ \E stale \in StaleValues :
          cOut' = IF cLib = "io" THEN _blitz2numpy(cText, stale)
                  ELSE BlitzArray_fromtext(cText, stale)
    /\ cPc' = "done"
    /\ UNCHANGED <<cLib, cArr, cText, cSv, cDims, dimVars, scanVars, vecVars,
                   animVars>>

\* The array a decoding returned is encoded again
Reencode ==
    /\ cLib \in {"io", "BlitzArray"}
    /\ cPc = "done"
    /\ cArr = NoArray
    /\ cOut.ok
    /\ cText' = (IF cLib = "io" THEN _numpy2blitz(cOut.arr)
                 ELSE BlitzArray_ascii(cOut.arr)).str
    /\ cPc' = "reencoded"
    /\ UNCHANGED <<cLib, cArr, cOut, cSv, cDims, dimVars, scanVars, vecVars, animVars>>

\* save_statevector(filename, sv), filename not ending with ".svbin"
save_statevector ==
    /\ cLib = "statevector"
    /\ cPc = "array"
    /\ cSv.name = "sv"
    /\ Encoded(SavedText(_numpy2blitz(cArr), cSv.time))
    /\ cSv' = [cSv EXCEPT !.opened = TRUE]
    /\ UNCHANGED <<cLib, cArr, cOut, cDims, dimVars, scanVars, vecVars, animVars>>

\* load_statevector(filename), filename not ending with ".svbin"
load_statevector ==
    /\ cLib = "statevector"
    /\ cPc = "text"
    /\ cSv.name = "sv"
    /\ \E stale \in StaleValues :
          SvReturned(load_statevector_buf(cText, stale))
    /\ cPc' = "done"
    /\ UNCHANGED <<cLib, cArr, cText, cDims, dimVars, scanVars, vecVars, animVars>>

\* The file is opened before ciobin is looked at
statevector_svbin_opening ==
    /\ cLib = "statevector"
    /\ cPc \in {"array", "text"}
    /\ cSv.name = "svbin"
    /\ cPc' = IF cSv.ciobin THEN "binary" ELSE "error"
    /\ cSv' = [cSv EXCEPT !.opened = TRUE]
    /\ UNCHANGED <<cLib, cArr, cText, cOut, cDims, dimVars, scanVars, vecVars,
                   animVars>>

\* Either function with a filename that ends with ".svbin": the file is
\* handed to ciobin, or IOError is raised when ciobin is None
statevector_svbin ==
    /\ cLib = "statevector"
    /\ cPc \in {"array", "text"}
    /\ cSv.name = "svbin"
    /\ cPc' = IF cSv.ciobin THEN "binary" ELSE "error"
    /\ cSv' = [cSv EXCEPT !.opened = cSv.ciobin]
    /\ UNCHANGED <<cLib, cArr, cText, cOut, cDims, dimVars, scanVars, vecVars,
                   animVars>>

\* BlitzArray(dimensions, data) of data.py, both arguments strings:
\* self.dimensions = self._str2dim(dimensions), then
\* self.data = self._str2data(data, self.dimensions)
BlitzArray_new ==
    /\ cLib = "data"
    /\ cPc = "args"
    /\ cDims' = DimsKept(cDims.str, _str2dim(cDims.str))
    /\ \E stale \in StaleValues : cOut' = BlitzArray_init(cText, cDims.str, stale)
    /\ cPc' = IF cOut'.ok THEN "done" ELSE "error"
    /\ UNCHANGED <<cLib, cArr, cText, cSv, dimVars, scanVars, vecVars, animVars>>

ClassName == <<"B", "l", "i", "t", "z", "A", "r", "r", "a", "y">>
Printed(dimstr) ==
    IF dimstr.ok THEN StrOk(ClassName \o <<"(">> \o dimstr.str \o <<")">>) ELSE StrFail

\* BlitzArray.__str__: "%s(%s)" % (classname, self._dim2str(self.dimensions))
BlitzArray_str ==
    /\ cLib = "data"
    /\ cPc = "done"
    /\ cText' = Printed(_dim2str(cDims.val)).str
    /\ cPc' = IF Printed(_dim2str(cDims.val)).ok THEN "printed" ELSE "error"
    /\ UNCHANGED <<cLib, cArr, cOut, cSv, cDims, dimVars, scanVars, vecVars, animVars>>

CodecNext ==
    \/ Encode
    \/ Decode
    \/ Reencode
    \/ save_statevector
    \/ load_statevector
    \/ statevector_svbin
    \/ BlitzArray_new
    \/ BlitzArray_str

----------------------------------------------------------------------------
(* The handlers the scanners are called with                                *)

NoFile == [head |-> <<>>, items |-> <<>>]

\* Nothing has been returned by an earlier call
NoKept ==
    [ok |-> FALSE, file |-> NoFile, header |-> TRUE, recs |-> <<>>, svs |-> <<>>,
     loaded |-> <<>>]

\* What the handlers of a run have kept so far; ok is FALSE once one raised
ClientNow ==
    [events |-> sEvents, recs |-> sRecs, svs |-> sSvs, files |-> sFiles,
     header |-> sKept.header, ok |-> TRUE]
Event(h, text, from, to) == [h |-> h, text |-> text, from |-> from, to |-> to]
Called(cs, e) == [cs EXCEPT !.events = Append(@, e)]
Raised(cs) == [cs EXCEPT !.ok = FALSE]

\* map(float, part.split()) for every part of evstr.split("\t")
FieldFloats(fields) == [j \in 1..Len(fields) |-> float(fields[j])]
\* A handler that reads the part before the first tab only
RowParts_first(parts) == <<FieldFloats(str_splitws(parts[1]))>>

RowParts(parts) == [i \in 1..Len(parts) |-> FieldFloats(str_splitws(parts[i]))]
RowOk(fp) == \A i \in 1..Len(fp) : \A j \in 1..Len(fp[i]) : fp[i][j].ok
RowValues(fp) == [i \in 1..Len(fp) |-> [j \in 1..Len(fp[i]) |-> fp[i][j].v]]
RowRec(raw, parts) == [raw |-> raw, parts |-> parts]
StoreRow(cs, raw, fp) ==
    IF RowOk(fp) THEN [cs EXCEPT !.recs = Append(@, RowRec(raw, RowValues(fp)))]
    ELSE Raised(cs)

\* load_cppqed.ev_handler and convert2python.traj_handler: the row as the
\* fields of its tab-separated parts
ev_handler(cs, evstr) == StoreRow(cs, evstr, RowParts(str_split(evstr, <<"\t">>)))

\* The rows Cppqed.load and split_cppqed keep are the lines themselves
RowHandled(client, cs, text) ==
    IF client = "record" THEN cs
    ELSE IF client \in {"load", "split_cppqed"}
    THEN [cs EXCEPT !.recs = Append(@, RowRec(text, <<>>))]
    ELSE ev_handler(cs, text)

HandleRow(client, cs, text, from, to) ==
    IF cs.ok THEN RowHandled(client, Called(cs, Event("row", text, from, to)), text)
    ELSE cs

\* A map that stops behind the first line
HandleRows_first(client, cs, lines, from) ==
    IF lines = <<>> THEN cs
    ELSE HandleRow(client, cs, lines[1], from, from + Len(lines[1]))

\* map(traj_handler, lines); from is the offset of the first line
RECURSIVE HandleRows(_, _, _, _)
HandleRows(client, cs, lines, from) ==
    IF lines = <<>> THEN cs
    ELSE HandleRows(client,
                    HandleRow(client, cs, lines[1], from, from + Len(lines[1])),
                    Tail(lines), from + Len(lines[1]) + 1)

RECURSIVE Flatten(_)
Flatten(parts) == IF parts = <<>> THEN <<>> ELSE parts[1] \o Flatten(Tail(parts))

FirstOf(row) == IF row = <<>> THEN FloatFail ELSE [ok |-> TRUE, v |-> row[1]]

\* A handler that takes the time 0 while no row has been read
LastTime_evs_zero(recs) ==
    IF recs = <<>> THEN [ok |-> TRUE, v |-> FloatZero]
    ELSE FirstOf(Flatten(recs[Len(recs)].parts))

\* load_cppqed.sv_handler: t = evs[-1][0]
LastTime_evs(recs) ==
    IF recs = <<>> THEN FloatFail ELSE FirstOf(Flatten(recs[Len(recs)].parts))

\* convert2python.sv_handler: t = traj[-1][0][0]
LastTime_traj(recs) ==
    IF recs = <<>> THEN FloatFail
    ELSE IF recs[Len(recs)].parts = <<>> THEN FloatFail
    ELSE FirstOf(recs[Len(recs)].parts[1])

\* Cppqed.load: pt = trajectory[-1]; t = float(pt[:pt.find(" ")])
PrefixTime(pt) == float(PyTo(pt, str_find(pt, <<" ">>, 0)))
LastTime_pt(recs) ==
    IF recs = <<>> THEN FloatFail ELSE PrefixTime(recs[Len(recs)].raw)

\* svs.append(StateVector(data, t)), unless the time or the array raised
StoreSv(cs, t, r) ==
    IF t.ok /\ r.ok THEN [cs EXCEPT !.svs = Append(@, [t |-> t.v, arr |-> r.arr])]
    ELSE Raised(cs)

\* A file of the file system: the name follows the write path
FileOf(name, text) == [name |-> name, text |-> text]
NamedFiles(files, name) == {i \in 1..Len(files) : files[i].name = name}

\* f = open(name, "w"); f.write(text); f.close(): a file of that name is
\* replaced
WriteFile(files, name, text) ==
    IF NamedFiles(files, name) = {}
    THEN Append(files, FileOf(name, text))
    ELSE [i \in 1..Len(files) |-> IF files[i].name = name THEN FileOf(name, text)
                                   ELSE files[i]]

TrajectoryName == <<>>
SvSuffix == <<".", "s", "v">>
BasisSuffix == <<"_", "b", "a", "s", "i", "s", ".", "s", "v">>

\* "%s_%06f.sv" % (writepath, t) and "%s_%06f_basis.sv" % (writepath, t)
SvFileName(t, suffix) == <<"_">> \o FloatFixedStr(t) \o suffix

\* "# %s 1\n" % t, when a header is asked for
SplitHeader(header, t) ==
    IF header THEN <<"#", " ">> \o FloatStr(t) \o <<" ", "1", "\n">> ELSE <<>>

split_cppqed_write(cs, t, svstr, suffix) ==
    IF ~t.ok THEN Raised(cs)
    ELSE [cs EXCEPT !.files = WriteFile(@, SvFileName(t.v, suffix),
                                        SplitHeader(cs.header, t.v) \o svstr)]

\* split_cppqed.sv_handler and split_cppqed.basis_handler
split_cppqed_handler(cs, svstr, suffix) ==
    IF cs.recs = <<>> THEN Raised(cs)
    ELSE split_cppqed_write(cs, LastTime_pt(cs.recs), svstr, suffix)

\* sv_handler of load_cppqed and of convert2python, and the body of the
\* loop of Cppqed.load
BlockHandled(client, cs, svstr, stale) ==
    IF client = "record" THEN cs
    ELSE IF client = "split_cppqed" THEN split_cppqed_handler(cs, svstr, SvSuffix)
    ELSE IF client = "load_cppqed"
    THEN StoreSv(cs, LastTime_evs(cs.recs), _blitz2numpy(svstr, stale))
    ELSE IF client = "convert2python"
    THEN StoreSv(cs, LastTime_traj(cs.recs), BlitzArray_fromtext(svstr, stale))
    ELSE StoreSv(cs, LastTime_pt(cs.recs), BlitzArray_fromtext(svstr, stale))

HandleBlock(client, cs, svstr, from, to, stale) ==
    IF cs.ok
    THEN BlockHandled(client, Called(cs, Event("block", svstr, from, to)), svstr, stale)
    ELSE cs

\* int(s)
int(s) == IntOfText(str_strip(s, Whitespace))

\* sysnumber = int(header[pos1:pos2]), pos1 after "SYS<" and pos2 at ">"
SysNumberAt(header, pos1) == int(PySlice(header, pos1, str_find(header, <<">">>, pos1)))
SysNumber(header) == SysNumberAt(header, str_find(header, <<"S", "Y", "S", "<">>, 0) + 4)

\* load_cppqed.basis_handler: the system number and the states are parsed;
\* the basis object built from them is not part of the model
BasisParsed(cs, sysnumber, states) == IF sysnumber.ok /\ states.ok THEN cs ELSE Raised(cs)
basis_handler(cs, header, svstr, stale) ==
    BasisParsed(cs, SysNumber(header), _blitz2numpy(svstr, stale))

HandleBasis(client, cs, header, svstr, from, to, stale) ==
    IF client = "record" THEN Called(cs, Event("basis", svstr, from, to))
    ELSE IF client = "split_cppqed"
    THEN split_cppqed_handler(Called(cs, Event("basis", svstr, from, to)), svstr,
                              BasisSuffix)
    ELSE basis_handler(Called(cs, Event("basis", svstr, from, to)), header, svstr, stale)

----------------------------------------------------------------------------
(* The scanners                                                             *)

BlockMarker == <<"\n", "(">>
BlockClose == <<"]">>
BlankLine == <<"\n", "\n">>
BasisTag == <<"#", " ", "B", "A", "S", "I", "S">>
BufferImpls == {"reader", "Cppqed"}

NoHead == [kind |-> "none", text |-> <<>>, lines |-> <<>>]
HeadText(text) == [kind |-> "text", text |-> text, lines |-> <<>>]
HeadLines(lines) == [kind |-> "lines", text |-> <<>>, lines |-> lines]

\* The handlers' lists after a step of a scanner
Kept(cs) ==
    /\ sEvents' = cs.events
    /\ sRecs' = cs.recs
    /\ sSvs' = cs.svs
    /\ sFiles' = cs.files

\* A loop that goes on where the iteration began
ScanGoesOn_stay(cs, pos) ==
    /\ Kept(cs)
    /\ sPos' = sPos
    /\ sPc' = IF cs.ok THEN "scan" ELSE "error"

\* The loop goes on at pos, unless a handler raised
ScanGoesOn(cs, pos) ==
    /\ Kept(cs)
    /\ sPos' = IF cs.ok THEN pos ELSE sPos
    /\ sPc' = IF cs.ok THEN "scan" ELSE "error"

\* The loop is left: by break, or by the exception a handler raised
ScanEnds(cs) ==
    /\ Kept(cs)
    /\ sPos' = sPos
    /\ sPc' = IF cs.ok THEN "done" ELSE "error"

\* CppqedOutputReader.read and Cppqed.load, "while buf[pos] in ("\n", "#")":
\* the condition holds and pos moves behind the next blank line
read_Advance ==
    /\ sImpl \in BufferImpls
    /\ sPc = "header"
    /\ sPos < Len(sBuf)
    /\ sBuf[sPos + 1] \in {"\n", "#"}
    /\ sPos' = str_find(sBuf, BlankLine, sPos) + 2
    /\ UNCHANGED <<sFile, sImpl, sClient, sBuf, sPc, sHead, sData, sEvents, sRecs,
                   sSvs, sFiles, stageVars,
                   dimVars, codecVars, vecVars, animVars>>

\* The condition fails: the comments and the data section are stored
read_Store ==
    /\ sImpl \in BufferImpls
    /\ sPc = "header"
    /\ sPos < Len(sBuf)
    /\ sBuf[sPos + 1] \notin {"\n", "#"}
    /\ sHead' = IF sImpl = "reader" THEN HeadText(PyTo(sBuf, sPos - 2))
                ELSE HeadLines(str_splitlines(PyTo(sBuf, sPos)))
    /\ sData' = PyFrom(sBuf, sPos)
    /\ sPos' = 0
    /\ sPc' = "scan"
    /\ UNCHANGED <<sFile, sImpl, sClient, sBuf, sEvents, sRecs, sSvs, sFiles, stageVars,
                   dimVars, codecVars, vecVars, animVars>>

\* buf[pos] with pos at the end of the buffer raises IndexError
read_IndexError ==
    /\ sImpl \in BufferImpls
    /\ sPc = "header"
    /\ sPos >= Len(sBuf)
    /\ sPc' = "error"
    /\ UNCHANGED <<sFile, sImpl, sClient, sBuf, sPos, sHead, sData, sEvents, sRecs,
                   sSvs, sFiles, stageVars,
                   dimVars, codecVars, vecVars, animVars>>

\* map(traj_handler, buf[pos:arraypos].splitlines())
RowsBefore(arraypos) ==
    HandleRows(sClient, ClientNow, str_splitlines(PySlice(sData, sPos, arraypos)), sPos)

\* An iteration that hands the newline before the block to the handler too
BlockFound_newline(cs, arraypos, arrayendpos, stale) ==
    IF ~cs.ok THEN ScanEnds(cs)
    ELSE IF arrayendpos = -1 THEN ScanEnds(Raised(cs))
    ELSE ScanGoesOn(HandleBlock(sClient, cs,
                                PySlice(sData, arraypos, arrayendpos + 1),
                                arraypos, arrayendpos + 1, stale),
                    arrayendpos + 2)

\* The rest of an iteration that found "\n(" at arraypos: the assertion on
\* arrayendpos, the block handler, pos = arrayendpos + 2
BlockFound(cs, arraypos, arrayendpos, stale) ==
    IF ~cs.ok THEN ScanEnds(cs)
    ELSE IF arrayendpos = -1 THEN ScanEnds(Raised(cs))
    ELSE ScanGoesOn(HandleBlock(sClient, cs,
                                PySlice(sData, arraypos + 1, arrayendpos + 1),
                                arraypos + 1, arrayendpos + 1, stale),
                    arrayendpos + 2)

BlockAt(arraypos, stale) ==
    BlockFound(RowsBefore(arraypos), arraypos, str_find(sData, BlockClose, arraypos),
               stale)

\* CppqedOutputReader._parsedatastr and the loop of Cppqed.load: an
\* iteration in which buf.find("\n(", pos) finds a block
_parsedatastr_Block ==
    /\ sImpl \in BufferImpls
    /\ sPc = "scan"
    /\ str_find(sData, BlockMarker, sPos) # -1
    /\ \E stale \in StaleValues : BlockAt(str_find(sData, BlockMarker, sPos), stale)
    /\ UNCHANGED <<sFile, sImpl, sClient, sBuf, sHead, sData, stageVars, dimVars,
                   codecVars, vecVars, animVars>>

\* The last iteration: no block is found, the rest is lines for the row
\* handler
_parsedatastr_Tail ==
    /\ sImpl \in BufferImpls
    /\ sPc = "scan"
    /\ str_find(sData, BlockMarker, sPos) = -1
    /\ ScanEnds(HandleRows(sClient, ClientNow, str_splitlines(PyFrom(sData, sPos)), sPos))
    /\ UNCHANGED <<sFile, sImpl, sClient, sBuf, sHead, sData, stageVars, dimVars,
                   codecVars, vecVars, animVars>>

\* The offset behind the line that starts at p, and that line with its
\* newline: what f.next() returns with the file at p
LineEnd(text, e) == IF e = -1 THEN Len(text) ELSE e + 1
NextLine(text, p) == LineEnd(text, str_find(text, <<"\n">>, p))
LineAt(text, p) == SliceBetween(text, p, NextLine(text, p))

\* "if line.strip(" \n") and not line.startswith("#"): break"
IsDataLine(line) == str_strip(line, {" ", "\n"}) # <<>> /\ ~str_startswith(line, <<"#">>)

\* io._parse_cppqed, first loop: f.next() at the end of the file raises
\* StopIteration
_parse_cppqed_HeadEof ==
    /\ sImpl = "io"
    /\ sPc = "header"
    /\ sPos >= Len(sBuf)
    /\ sPc' = "error"
    /\ UNCHANGED <<sFile, sImpl, sClient, sBuf, sPos, sHead, sData, sEvents, sRecs,
                   sSvs, sFiles, stageVars,
                   dimVars, codecVars, vecVars, animVars>>

\* A blank line or a comment line is appended to buf
_parse_cppqed_HeadLine ==
    /\ sImpl = "io"
    /\ sPc = "header"
    /\ sPos < Len(sBuf)
    /\ ~IsDataLine(LineAt(sBuf, sPos))
    /\ sPos' = NextLine(sBuf, sPos)
    /\ UNCHANGED <<sFile, sImpl, sClient, sBuf, sPc, sHead, sData, sEvents, sRecs,
                   sSvs, sFiles, stageVars,
                   dimVars, codecVars, vecVars, animVars>>

\* The first data line ends the loop: head_handler("".join(buf)); the second
\* loop starts with this line
_parse_cppqed_HeadEnd ==
    /\ sImpl = "io"
    /\ sPc = "header"
    /\ sPos < Len(sBuf)
    /\ IsDataLine(LineAt(sBuf, sPos))
    /\ sHead' = HeadText(PyTo(sBuf, sPos))
    /\ sData' = PyFrom(sBuf, sPos)
    /\ sPos' = 0
    /\ sPc' = "scan"
    /\ UNCHANGED <<sFile, sImpl, sClient, sBuf, sEvents, sRecs, sSvs, sFiles, stageVars,
                   dimVars, codecVars, vecVars, animVars>>

\* The branch of the second loop that line takes
LineKind(line) ==
    IF str_strip(line, Whitespace) = <<>> THEN "blank"
    ELSE IF str_startswith(line, BasisTag) THEN "basis"
    ELSE IF str_startswith(line, <<"#">>) THEN "comment"
    ELSE IF str_startswith(line, <<"(">>) THEN "block"
    ELSE "row"

\* The inner loops: the offset behind the first line from p on that ends
\* with " ]\n", or -1 when f.next() raises StopIteration before one does
RECURSIVE ArrayEnd(_, _), ArrayEndLine(_, _, _)
ArrayEnd(text, p) ==
    IF p >= Len(text) THEN -1
    ELSE ArrayEndLine(text, NextLine(text, p),
                      str_endswith(LineAt(text, p), <<" ", "]", "\n">>))
ArrayEndLine(text, next, closed) == IF closed THEN next ELSE ArrayEnd(text, next)

\* "line = f.next()" at the end of an iteration; StopIteration ends the loop
LineDone(cs, next) ==
    /\ Kept(cs)
    /\ sPos' = IF cs.ok THEN next ELSE sPos
    /\ sPc' = IF ~cs.ok THEN "error" ELSE IF next >= Len(sData) THEN "done" ELSE "scan"

\* io._parse_cppqed, second loop: a blank line or a comment line
_parse_cppqed_Skip ==
    /\ sImpl = "io"
    /\ sPc = "scan"
    /\ LineKind(LineAt(sData, sPos)) \in {"blank", "comment"}
    /\ LineDone(ClientNow, NextLine(sData, sPos))
    /\ UNCHANGED <<sFile, sImpl, sClient, sBuf, sHead, sData, stageVars, dimVars,
                   codecVars, vecVars, animVars>>

\* A line for ev_handler
_parse_cppqed_Row ==
    /\ sImpl = "io"
    /\ sPc = "scan"
    /\ LineKind(LineAt(sData, sPos)) = "row"
    /\ LineDone(HandleRow(sClient, ClientNow, LineAt(sData, sPos), sPos,
                          NextLine(sData, sPos)),
                NextLine(sData, sPos))
    /\ UNCHANGED <<sFile, sImpl, sClient, sBuf, sHead, sData, stageVars, dimVars,
                   codecVars, vecVars, animVars>>

ArrayLines(end, stale) ==
    IF end = -1 THEN ScanEnds(Raised(ClientNow))
    ELSE LineDone(HandleBlock(sClient, ClientNow, SliceBetween(sData, sPos, end),
                              sPos, end, stale),
                  end)

\* A line starting with "(": the lines up to the one ending with " ]\n" are
\* joined for sv_handler
_parse_cppqed_Block ==
    /\ sImpl = "io"
    /\ sPc = "scan"
    /\ LineKind(LineAt(sData, sPos)) = "block"
    /\ \E stale \in StaleValues : ArrayLines(ArrayEnd(sData, NextLine(sData, sPos)), stale)
    /\ UNCHANGED <<sFile, sImpl, sClient, sBuf, sHead, sData, stageVars, dimVars,
                   codecVars, vecVars, animVars>>

BasisLines(start, end, stale) ==
    IF end = -1 THEN ScanEnds(Raised(ClientNow))
    ELSE LineDone(HandleBasis(sClient, ClientNow, LineAt(sData, sPos),
                              SliceBetween(sData, start, end), start, end, stale),
                  end)

\* A line starting with "# BASIS": the lines after it, up to the one ending
\* with " ]\n", are joined for basis_handler
_parse_cppqed_Basis ==
    /\ sImpl = "io"
    /\ sPc = "scan"
    /\ LineKind(LineAt(sData, sPos)) = "basis"
    /\ \E stale \in StaleValues :
          BasisLines(NextLine(sData, sPos), ArrayEnd(sData, NextLine(sData, sPos)), stale)
    /\ UNCHANGED <<sFile, sImpl, sClient, sBuf, sHead, sData, stageVars, dimVars,
                   codecVars, vecVars, animVars>>

\* The lines split_cppqed has kept in evs
RawLines(recs) == [i \in 1..Len(recs) |-> recs[i].raw]

\* f.write("".join(head)); f.write("\n\n%s\n" % "\n".join(evs))
TrajectoryText(head, evs) ==
    head \o <<"\n", "\n">> \o str_join(evs, <<"\n">>) \o <<"\n">>

\* What the scan starts from when a file is parsed
ScanReset ==
    /\ sPc' = "header"
    /\ sPos' = 0
    /\ sHead' = NoHead
    /\ sData' = <<>>
    /\ sEvents' = <<>>
    /\ sRecs' = <<>>
    /\ sSvs' = <<>>

\* test_splitstatevector: after load_cppqed has returned or raised, the same
\* file is handed to split_cppqed, which starts parsing it with its handlers
split_cppqed_Start ==
    /\ sImpl = "io"
    /\ sClient = "load_cppqed"
    /\ sStage = "first"
    /\ sPc \in {"done", "error"}
    /\ \E header \in BOOLEAN :
           sKept' = [ok |-> sPc = "done", file |-> sFile, header |-> header,
                     recs |-> sRecs, svs |-> sSvs, loaded |-> <<>>]
    /\ sStage' = "split"
    /\ sClient' = "split_cppqed"
    /\ sFiles' = <<>>
    /\ ScanReset
    /\ UNCHANGED <<sFile, sImpl, sBuf, dimVars, codecVars, vecVars, animVars>>

\* split_cppqed behind _parse_cppqed: the header and the rows are written to
\* the write path
split_cppqed_Write ==
    /\ sClient = "split_cppqed"
    /\ sStage = "split"
    /\ sPc = "done"
    /\ sFiles' = WriteFile(sFiles, TrajectoryName,
                           TrajectoryText(sHead.text, RawLines(sRecs)))
    /\ sStage' = "written"
    /\ UNCHANGED <<sFile, sImpl, sClient, sBuf, sPc, sPos, sHead, sData, sEvents,
                   sRecs, sSvs, sKept, dimVars, codecVars, vecVars, animVars>>

\* test_splitstatevector: load_cppqed on the written trajectory file
load_cppqed_Written ==
    /\ sStage = "written"
    /\ sBuf' = sFiles[CHOOSE i \in NamedFiles(sFiles, TrajectoryName) : TRUE].text
    /\ sFile' = NoFile
    /\ sClient' = "load_cppqed"
    /\ sStage' = "reload"
    /\ ScanReset
    /\ UNCHANGED <<sImpl, sFiles, sKept, dimVars, codecVars, vecVars, animVars>>

\* The written state-vector files, in the order they were first written
IsSvFile(f) == f.name # TrajectoryName /\ PyFrom(f.name, 0 - Len(BasisSuffix)) # BasisSuffix
SvFilesOf(files) == SelectSeq(files, IsSvFile)
LoadedSvs(files, stale) ==
    [i \in 1..Len(files) |-> load_statevector_buf(files[i].text, stale)]

\* test_splitstatevector: load_statevector on every written state-vector
\* file, once the trajectory file has been loaded
load_statevector_Written ==
    /\ sStage = "reload"
    /\ sPc \in {"done", "error"}
    /\ \E stale \in StaleValues :
           sKept' = [sKept EXCEPT !.loaded = LoadedSvs(SvFilesOf(sFiles), stale)]
    /\ sStage' = "compared"
    /\ UNCHANGED <<sFile, sImpl, sClient, sBuf, sPc, sPos, sHead, sData, sEvents,
                   sRecs, sSvs, sFiles, dimVars, codecVars, vecVars, animVars>>

ScanNext ==
    \/ read_Advance
    \/ read_Store
    \/ read_IndexError
    \/ _parsedatastr_Block
    \/ _parsedatastr_Tail
    \/ _parse_cppqed_HeadEof
    \/ _parse_cppqed_HeadLine
    \/ _parse_cppqed_HeadEnd
    \/ _parse_cppqed_Skip
    \/ _parse_cppqed_Row
    \/ _parse_cppqed_Block
    \/ _parse_cppqed_Basis
    \/ split_cppqed_Start
    \/ split_cppqed_Write
    \/ load_cppqed_Written
    \/ load_statevector_Written

----------------------------------------------------------------------------
(* Inputs of the scanners                                                   *)

MaxItems == 3

\* Comment sections: none, one paragraph, two paragraphs
OneParagraph ==
    << "#", " ", "c", "\n", "\n" >>
TwoParagraphs ==
    << "#", " ", "c", "\n", "\n", "#", " ", "k", "\n", "\n" >>
Headers == {<<>>, OneParagraph, TwoParagraphs}

\* Rows: time and a value; a tab after the time; the time alone
SpaceRow ==
    << "0", ".", "5", " ", "1", "\n" >>
TabRow ==
    << "2", "\t", "3", " ", "4", "\n" >>
LoneRow ==
    << "0", ".", "2", "5", "\n" >>

\* Array blocks: one body line; two body lines and a blank line after the
\* block, as _numpy2blitz ends its text; a block cut off before its "]"
ShortBlock ==
    << "(", "0", ",", "1", ")", "\n", "[", " ", "(", "1", ",", "0", ")", " ",
       "(", "0", ",", "1", ")", " ", "]", "\n" >>
LongBlock ==
    << "(", "0", ",", "1", ")", " ", "x", " ", "(", "0", ",", "0", ")", "\n",
       "[", " ", "(", "3", ",", "0", ")", " ", "\n", " ", " ", "(", "4", ",",
       "0", ")", " ", "]", "\n", "\n" >>
CutBlock ==
    << "(", "0", ",", "2", ")", "\n", "[", " ", "(", "1", ",", "0", ")",
       "\n" >>

\* A comment line within the data, and a basis block
CommentLine ==
    << "#", " ", "k", "\n" >>
BasisBlock ==
    << "#", " ", "B", "A", "S", "I", "S", " ", "S", "Y", "S", "<", "-", "1",
       ">", " ", "T", "Y", "P", "E", "<", "q", ">", "\n", "(", "0", ",", "0",
       ")", "\n", "[", " ", "(", "1", ",", "0", ")", " ", "]", "\n" >>

\* The two rows of the documented example, "0.0\t1.0\n0.1\t1.1\n"
ZeroRow ==
    << "0", ".", "0", "\t", "1", ".", "0", "\n" >>
TenthRow ==
    << "0", ".", "1", "\t", "1", ".", "1", "\n" >>
ExampleRows == <<"ZeroRow", "TenthRow">>

\* A comment line that holds the "#" only
BareComment == <<"#", "\n">>

RowItems == {"SpaceRow", "TabRow", "LoneRow"}
BlockItems == {"ShortBlock", "LongBlock"}
OtherItems == {"CutBlock", "CommentLine", "BasisBlock"}

ItemText(item) ==
    CASE item = "SpaceRow" -> SpaceRow
      [] item = "TabRow" -> TabRow
      [] item = "LoneRow" -> LoneRow
      [] item = "ShortBlock" -> ShortBlock
      [] item = "LongBlock" -> LongBlock
      [] item = "CutBlock" -> CutBlock
      [] item = "CommentLine" -> CommentLine
      [] item = "BasisBlock" -> BasisBlock
      [] item = "ZeroRow" -> ZeroRow
      [] item = "TenthRow" -> TenthRow
      [] item = "BareComment" -> BareComment

RECURSIVE ItemsText(_)
ItemsText(items) ==
    IF items = <<>> THEN <<>> ELSE ItemText(items[1]) \o ItemsText(Tail(items))

FileText(file) == file.head \o ItemsText(file.items)

\* Rows and blocks in every order, and such a sequence with one other item
\* before or after it
PlainItems == {<<>>} \cup SeqsUpTo(RowItems \cup BlockItems, MaxItems)
MixedItems ==
    {<<x>> \o q : x \in OtherItems, q \in {p \in PlainItems : Len(p) < MaxItems}}
    \cup {q \o <<x>> : x \in OtherItems, q \in {p \in PlainItems : Len(p) < MaxItems}}
\* Comments at the start that no blank line ends
UnendedItems == {<<c, x>> : c \in {"CommentLine", "BareComment"}, x \in RowItems}
Files ==
    {[head |-> h, items |-> q] :
        h \in Headers, q \in PlainItems \cup MixedItems \cup {ExampleRows}}
    \cup {[head |-> <<>>, items |-> q] : q \in UnendedItems}

\* The scanning code and the handlers it runs with: handlers that only
\* record their calls, or those of the loader around the scanner
Runs ==
    { <<"io", "record">>, <<"io", "load_cppqed">>,
      <<"reader", "record">>, <<"reader", "convert2python">>,
      <<"Cppqed", "load">> }

ScanStart ==
    /\ sFile \in Files
    /\ \E run \in Runs : sImpl = run[1] /\ sClient = run[2]
    /\ sBuf = FileText(sFile)
    /\ sPc = "header"
    /\ sPos = 0
    /\ sHead = NoHead
    /\ sData = <<>>
    /\ sEvents = <<>>
    /\ sRecs = <<>>
    /\ sSvs = <<>>
    /\ sFiles = <<>>
    /\ sStage = "first"
    /\ sKept = NoKept

ScanIdle ==
    /\ sFile = NoFile
    /\ sImpl = "none"
    /\ sClient = "none"
    /\ sBuf = <<>>
    /\ sPc = "idle"
    /\ sPos = 0
    /\ sHead = NoHead
    /\ sData = <<>>
    /\ sEvents = <<>>
    /\ sRecs = <<>>
    /\ sSvs = <<>>
    /\ sFiles = <<>>
    /\ sStage = "idle"
    /\ sKept = NoKept

----------------------------------------------------------------------------
(* State vectors (statevector.py, data.py)                                  *)

\* An integer array: its shape and its elements in row-major order
IntArray(shape, vals) == [shape |-> shape, vals |-> vals]
NoIntArray == IntArray(<<>>, <<>>)

ZeroTime == [dtype |-> "int", v |-> FloatZero]
NoStateVector == [dimensions |-> PyTuple(<<>>), time |-> NoTime]
BuiltVector(dimensions, time) == [dimensions |-> dimensions, time |-> time]

\* obj.shape, a tuple of integers
ShapeTuple(shape) == PyTuple([i \in 1..Len(shape) |-> PyInt(shape[i])])

\* statevector.StateVector.__new__ with __array_finalize__: the dimensions
\* are the shape of the array viewed; the time is the one given, else that
\* of the data, else the 0 set when the view is made
StateVector_time(time, datatime) ==
    IF time # NoTime THEN time ELSE IF datatime # NoTime THEN datatime ELSE ZeroTime
StateVector_new ==
    /\ vClass = "statevector"
    /\ vPc = "new"
    /\ vSv' = BuiltVector(ShapeTuple(vData.shape),
                          StateVector_time(vArgs.time, vArgs.datatime))
    /\ vPc' = "built"
    /\ UNCHANGED <<vClass, vData, vArgs, vRed, dimVars, codecVars, scanVars, animVars>>

\* data.StateVector.__init__ without dimensions: data has to be a numpy
\* array, the dimensions are the pairs (0, dim-1) made tuples by
\* BlitzArray.__init__, and the time is the one given, 0 by default
StateVector_init ==
    /\ vClass = "data"
    /\ vPc = "new"
    /\ vPc' = IF vArgs.kind = "tuple" THEN "error" ELSE "built"
    /\ vSv' = IF vArgs.kind = "tuple" THEN NoStateVector
              ELSE BuiltVector(PyDimensions(ShapeDimensions(vData.shape)),
                               IF vArgs.time # NoTime THEN vArgs.time ELSE ZeroTime)
    /\ UNCHANGED <<vClass, vData, vArgs, vRed, dimVars, codecVars, scanVars, animVars>>

Reverse(s) == [i \in 1..Len(s) |-> s[Len(s) + 1 - i]]
InsertSorted(sorted, x) ==
    SelectSeq(sorted, LAMBDA y : y < x) \o <<x>> \o SelectSeq(sorted, LAMBDA y : y >= x)

\* a.sort()
RECURSIVE list_sort(_)
list_sort(a) == IF a = <<>> THEN <<>> ELSE InsertSorted(list_sort(Tail(a)), a[1])

\* A sort that leaves the list ascending whatever reverse says
_sorted_list_ascending(iterable, reverse) == list_sort(iterable)

\* _sorted_list(iterable, reverse)
_sorted_list(iterable, reverse) ==
    IF reverse THEN Reverse(list_sort(iterable)) ELSE list_sort(iterable)

\* The sum of the n elements that are inner apart, the first behind base
RECURSIVE AxisSum(_, _, _, _)
AxisSum(vals, base, n, inner) ==
    IF n = 0 THEN 0
    ELSE vals[base + (n - 1) * inner + 1] + AxisSum(vals, base, n - 1, inner)

SumAxisVals(vals, outer, n, inner) ==
    [k \in 1..(outer * inner) |->
        AxisSum(vals, ((k - 1) \div inner) * n * inner + ((k - 1) % inner), n, inner)]

DropAxis(shape, ax) == SubSeq(shape, 1, ax) \o SubSeq(shape, ax + 2, Len(shape))

SumFail == [ok |-> FALSE, arr |-> NoIntArray]

\* array.sum(axis=ax) for an axis counted from the front
SumAt(a, ax) ==
    IF ax < 0 \/ ax >= Len(a.shape) THEN SumFail
    ELSE [ok |-> TRUE,
          arr |-> IntArray(DropAxis(a.shape, ax),
                           SumAxisVals(a.vals, Product(SubSeq(a.shape, 1, ax)),
                                       a.shape[ax + 1],
                                       Product(SubSeq(a.shape, ax + 2, Len(a.shape)))))]

\* array.sum(axis=i): a negative axis counts from the end, an axis out of
\* range raises
ndarray_sum(a, i) == SumAt(a, IF i < 0 THEN i + Len(a.shape) ELSE i)

\* for i in a: array = array.sum(axis=i)
RECURSIVE SumAxes(_, _)
SumAxes(r, a) ==
    IF a = <<>> \/ ~r.ok THEN r ELSE SumAxes(ndarray_sum(r.arr, a[1]), Tail(a))

\* The argument indices: an integer, or a list of integers
IntIndex(i) == [int |-> TRUE, seq |-> <<i>>]
ListIndex(seq) == [int |-> FALSE, seq |-> seq]
NoIndex == ListIndex(<<>>)
NoReduced == [indices |-> NoIndex, ok |-> FALSE, arr |-> NoIntArray]
Reduced(indices, r) == [indices |-> indices, ok |-> r.ok, arr |-> r.arr]

\* StateVector.reduce(indices, norm=False)
reduce_axes(indices) ==
    IF indices.int THEN indices.seq ELSE _sorted_list(indices.seq, TRUE)

\* Sequences of distinct axes of an array of rank ndim, in every order
RECURSIVE AxisLists(_, _)
AxisLists(axes, len) ==
    IF len = 0 THEN {<<>>}
    ELSE UNION {{<<i>> \o q : q \in AxisLists(axes \ {i}, len - 1)} : i \in axes}
IndexArgs(ndim) ==
    {IntIndex(i) : i \in 0..(ndim - 1)}
    \cup {ListIndex(q) : q \in UNION {AxisLists(0..(ndim - 1), len) : len \in 0..ndim}}

reduce ==
    /\ vClass = "statevector"
    /\ vPc = "built"
    /\ \E indices \in IndexArgs(Len(vData.shape)) :
           vRed' = Reduced(indices,
                           SumAxes([ok |-> TRUE, arr |-> vData], reduce_axes(indices)))
    /\ vPc' = "reduced"
    /\ UNCHANGED <<vClass, vData, vArgs, vSv, dimVars, codecVars, scanVars, animVars>>

VecNext ==
    \/ StateVector_new
    \/ StateVector_init
    \/ reduce

----------------------------------------------------------------------------
(* Inputs of the state vectors                                              *)

MaxVecRank == 3
MaxVecElems == 12

VecShapes == UNION {ShapesWithin(r, MaxVecElems) : r \in 1..MaxVecRank}

\* numpy.arange(n).reshape(shape)
ArangeInts(shape) == IntArray(shape, [i \in 1..Product(shape) |-> i - 1])

\* The data is a nested tuple, a numpy array, or a state vector, which
\* has a time of its own
VecArgs ==
    {[kind |-> kind, time |-> time, datatime |-> NoTime] :
        kind \in {"tuple", "ndarray"}, time \in SvTimes \cup {NoTime}}
    \cup {[kind |-> "StateVector", time |-> time, datatime |-> datatime] :
            time \in SvTimes \cup {NoTime}, datatime \in SvTimes}

VecStart ==
    /\ vClass \in {"statevector", "data"}
    /\ vPc = "new"
    /\ vData \in {ArangeInts(shape) : shape \in VecShapes}
    /\ vArgs \in VecArgs
    /\ vSv = NoStateVector
    /\ vRed = NoReduced

VecIdle ==
    /\ vClass = "none"
    /\ vPc = "idle"
    /\ vData = NoIntArray
    /\ vArgs = [kind |-> "none", time |-> NoTime, datatime |-> NoTime]
    /\ vSv = NoStateVector
    /\ vRed = NoReduced

----------------------------------------------------------------------------
(* The Animation window (animation.py)                                      *)

MaxSteps == 3
MaxInputs == 4

NoSource == "None"
Button(plays, stock) == [plays |-> plays, stock |-> stock]

\* The window as a handler finds it; draws collects the steps the handler
\* asks the canvas to draw
AnimNow ==
    [steps |-> aSteps, step |-> aStep, play |-> aPlay, button |-> aButton,
     idle |-> aIdle, draws |-> <<>>]

\* Canvas.plot(step) and Canvas.fast_plot(step): data[i][step] is read
plot(a, step) == [a EXCEPT !.draws = Append(@, step)]
fast_plot(a, step) == [a EXCEPT !.draws = Append(@, step)]

\* gobject.source_remove(self._play) takes the source from the main loop
source_remove(idle, play) == IF play = "source" /\ idle > 0 THEN idle - 1 ELSE idle

\* Animation.handle_pause
handle_pause(a) ==
    IF a.play # NoSource
    THEN [a EXCEPT !.idle = source_remove(a.idle, a.play), !.play = NoSource]
    ELSE a

\* PlayButton.pause: the stock id, _plays, and the signal "clicked-pause",
\* which Animation.handle_pause is connected to
PlayButton_pause(a) == handle_pause([a EXCEPT !.button = Button(FALSE, "play")])

\* Animation.handle_play: the step is set back from the last frame, and
\* _play is registered as an idle callback
handle_play(a) ==
    [a EXCEPT !.step = IF a.step >= a.steps - 1 THEN 0 ELSE a.step,
              !.play = "source",
              !.idle = @ + 1]

\* PlayButton.play: the stock id, _plays, and the signal "clicked-play"
PlayButton_play(a) == handle_play([a EXCEPT !.button = Button(TRUE, "pause")])

\* PlayButton.handle_clicked
handle_clicked(a) == IF a.button.plays THEN PlayButton_pause(a) ELSE PlayButton_play(a)

\* A callback that returns False takes its source from the main loop, if
\* the source is still there: n sources are left at most
IdleReturned(a, n) == [a EXCEPT !.idle = Min2(@, n)]

\* A callback that stops without telling the button
_play_unpaused(a) ==
    IF a.step < a.steps - 1
    THEN fast_plot([a EXCEPT !.step = @ + 1], a.step + 1)
    ELSE IdleReturned(a, a.idle - 1)

\* The idle callback _play of Animation.handle_play; scale.set_value moves
\* the slider and emits no "change-value"
_play(a) ==
    IF a.step < a.steps - 1
    THEN fast_plot([a EXCEPT !.step = @ + 1], a.step + 1)
    ELSE IdleReturned(PlayButton_pause(a), a.idle - 1)

\* Animation.scroll: the value of the slider is a float, here a number of
\* halves; int(value) cuts the fraction off
scroll_step(steps, halves) ==
    IF halves < 0 THEN 0
    ELSE IF halves < 2 * steps THEN halves \div 2
    ELSE steps - 1
scroll(a, halves) ==
    fast_plot([a EXCEPT !.step = scroll_step(a.steps, halves)],
              scroll_step(a.steps, halves))

\* Animation.handle_resize
handle_resize(a) == plot(a, a.step)

\* Animation.save_movie: the loop "while self.step < self.steps", and the
\* statements before it; the files written are not part of the model
RECURSIVE save_movie_loop(_)
save_movie_loop(a) ==
    IF a.step < a.steps
    THEN save_movie_loop([fast_plot(a, a.step) EXCEPT !.step = @ + 1])
    ELSE a
save_movie(a) == save_movie_loop(plot([a EXCEPT !.step = 0], 0))

\* The window after a handler has returned
Becomes(a) ==
    /\ aStep' = a.step
    /\ aPlay' = a.play
    /\ aButton' = a.button
    /\ aIdle' = a.idle
    /\ aDraws' = a.draws
    /\ aSteps' = aSteps

\* An event of the user has been handled
UserEvent(a, name) ==
    /\ aInputs < MaxInputs
    /\ Becomes(a)
    /\ aLast' = name
    /\ aInputs' = aInputs + 1
    /\ UNCHANGED <<dimVars, codecVars, scanVars, vecVars>>

\* The slider can be dragged beyond both of its ends
ScaleHalves == (0 - 2)..(2 * MaxSteps + 2)

\* The user clicks the play button
clicked ==
    UserEvent(handle_clicked(AnimNow), IF aButton.plays THEN "pause" ELSE "play")

\* The user moves the slider
change_value == \E halves \in ScaleHalves : UserEvent(scroll(AnimNow, halves), "scroll")

\* The user resizes the window
resize_event == UserEvent(handle_resize(AnimNow), "resize")

\* The user has chosen a file name in the dialog of the save button
clicked_save == UserEvent(save_movie(AnimNow), "save")

\* The main loop is idle and calls a registered callback
idle ==
    /\ aIdle > 0
    /\ Becomes(_play(AnimNow))
    /\ UNCHANGED <<aLast, aInputs, dimVars, codecVars, scanVars, vecVars>>

AnimNext ==
    \/ clicked
    \/ change_value
    \/ resize_event
    \/ clicked_save
    \/ idle

\* Animation.__init__: step = 0, _play = False, and canvas.plot(0), which
\* needs a frame 0
AnimStart ==
    /\ aSteps \in 1..MaxSteps
    /\ aStep = 0
    /\ aPlay = "False"
    /\ aButton = Button(FALSE, "play")
    /\ aIdle = 0
    /\ aLast = "none"
    /\ aInputs = 0
    /\ aDraws = <<0>>

AnimIdle ==
    /\ aSteps = 0
    /\ aStep = 0
    /\ aPlay = "False"
    /\ aButton = Button(FALSE, "play")
    /\ aIdle = 0
    /\ aLast = "none"
    /\ aInputs = 0
    /\ aDraws = <<>>

----------------------------------------------------------------------------
(* Specifications                                                           *)

DimInit == DimStart /\ CodecIdle /\ ScanIdle /\ VecIdle /\ AnimIdle
SpecDim == DimInit /\ [][DimNext]_vars

CodecInit ==
    (CodecStart \/ StateVectorStart \/ BlitzArrayStart)
        /\ DimIdle /\ ScanIdle /\ VecIdle /\ AnimIdle
SpecCodec == CodecInit /\ [][CodecNext]_vars

ScanInit == ScanStart /\ DimIdle /\ CodecIdle /\ VecIdle /\ AnimIdle
SpecScan == ScanInit /\ [][ScanNext]_vars

VecInit == VecStart /\ DimIdle /\ CodecIdle /\ ScanIdle /\ AnimIdle
SpecVec == VecInit /\ [][VecNext]_vars

AnimInit == AnimStart /\ DimIdle /\ CodecIdle /\ ScanIdle /\ VecIdle
SpecAnim == AnimInit /\ [][AnimNext]_vars

\* The main loop of gtk calls an idle callback again and again for as long
\* as it is registered and no event is waiting
SpecAnimIdle == AnimInit /\ [][AnimNext]_vars /\ WF_vars(idle)

----------------------------------------------------------------------------
(* Properties of the dimension-string codec (SpecDim)                       *)

\* The decimal text of an integer: digits without leading zeros, and a
\* minus sign before them when it is negative
IsNaturalOf(s, n) ==
    s # <<>> /\ AllDigits(s) /\ (Len(s) = 1 \/ s[1] # "0") /\ DigitsVal(s, 10) = n
IsDecimalOf(s, n) ==
    IF n < 0 THEN Len(s) >= 2 /\ s[1] = "-" /\ IsNaturalOf(Tail(s), 0 - n)
    ELSE IsNaturalOf(s, n)

\* seg is "(lo,hi)" for the pair d, with no other characters
IsSegmentOf(seg, d) ==
    /\ Len(seg) >= 5
    /\ seg[1] = "("
    /\ seg[Len(seg)] = ")"
    /\ \E c \in 3..(Len(seg) - 2) :
          /\ seg[c] = ","
          /\ IsDecimalOf(SubSeq(seg, 2, c - 1), d.items[1].n)
          /\ IsDecimalOf(SubSeq(seg, c + 1, Len(seg) - 1), d.items[2].n)

\* segs are the segments of the spec, in order
AreSegmentsOf(segs, spec) ==
    /\ Len(segs) = Len(spec.items)
    /\ \A i \in 1..Len(segs) : IsSegmentOf(segs[i], spec.items[i])

TestSpec == PyTuple(<<PyPair(0, 3), PyPair(0, 9)>>)
TestString == <<"(", "0", ",", "3", ")", " ", "x", " ", "(", "0", ",", "9", ")">>

\* C8: for every dimension spec d of one or more pairs (lo,hi) with
\* hi >= lo, parsing the string rendered from d gives d back:
\* _str2dim(_dim2str(d)) = d.
C8_DimRoundTrip ==
    (dimOrig.kind = "spec" /\ dimOps = <<"render", "parse">>)
        => (dimCur.kind = "spec" /\ dimCur.spec = dimOrig.spec)

\* C8 witness: a spec of three pairs, one with a negative bound, has been
\* rendered and parsed back
C8_Witness ==
    /\ dimOrig.kind = "spec"
    /\ Len(dimOrig.spec.items) = 3
    /\ dimOrig.spec.items[2] = PyPair(-12, 9)
    /\ dimOps = <<"render", "parse">>
    /\ dimCur.kind = "spec"

\* C9: rendering a spec gives exactly its segments "(lo,hi)" joined by
\* " x " and nothing else, ((0,3),(0,9)) gives "(0,3) x (0,9)", and
\* rendering what parsing a canonical string returned gives that string
\* back character for character.
C9_CanonicalForm ==
    /\ (dimOrig.kind = "spec" /\ dimOps = <<"render">>)
          => /\ dimCur.kind = "str"
             /\ AreSegmentsOf(str_split(dimCur.str, SepX), dimOrig.spec)
             /\ dimOrig.spec = TestSpec => dimCur.str = TestString
    /\ (dimOrig.kind = "str" /\ dimOrig.canon /\ dimOps = <<"parse", "render">>)
          => (dimCur.kind = "str" /\ dimCur.str = dimOrig.str)

\* C9 witness: ((0,3),(0,9)) has been rendered as "(0,3) x (0,9)"
C9_Witness ==
    /\ dimOrig.kind = "spec"
    /\ dimOrig.spec = TestSpec
    /\ dimOps = <<"render">>
    /\ dimCur.str = TestString

\* C10 as stated: parsing a dimension string one of whose segments is not
\* exactly two comma-separated integers, or has hi < lo, fails with an error
\* and produces no dimension spec.
C10_BadSegmentRejected ==
    (dimOrig.kind = "str" /\ ~dimOrig.canon /\ dimOps = <<"parse">>)
        => dimCur.kind = "error"

\* C10 failing input: "(0,1,2)" has been parsed, and a spec was returned
C10_Witness ==
    /\ dimOrig.kind = "str"
    /\ dimOrig.str = ThreeNumberSeg
    /\ dimOps = <<"parse">>
    /\ dimCur.kind = "spec"

----------------------------------------------------------------------------
(* Properties of the array-block codec (SpecCodec)                          *)

\* The element c with both parts rounded to the digits str() keeps
RoundedElement(c) ==
    Cplx(RoundSig(c.re, FloatStrPrecision), RoundSig(c.im, FloatStrPrecision))

\* C1 as stated: for every dense array a of rank 1 to 5 with positive
\* extents, decoding the text the encoder produced returns an array of the
\* same shape whose elements equal those of a:
\* _blitz2numpy(_numpy2blitz(a)) = a elementwise.
C1_RoundTrip ==
    (cLib = "io" /\ cPc = "done" /\ cArr # NoArray)
        => (cOut.ok /\ cOut.arr.shape = cArr.shape /\ cOut.arr.data = cArr.data)

\* C1 failing input: the array whose first element is 1234567890123.0 has
\* been encoded and decoded, and the decoded element is another number
C1_Witness ==
    /\ cLib = "io"
    /\ cPc = "done"
    /\ cArr.shape = <<2, 2>>
    /\ cArr.data[1] = Cplx(Thirteen, FloatZero)
    /\ cOut.ok
    /\ cOut.arr.data[1] = Cplx(Flt(FALSE, <<1, 2, 3, 4, 5, 6, 7, 8, 9, 0, 1, 2>>, 13),
                               FloatZero)

\* What the round trip of io.py does keep: the shape, and every element to
\* the significant digits str() writes; integer-valued arrays such as those
\* of test_io.py come back unchanged.
RoundTripToPrecision ==
    (cLib = "io" /\ cPc = "done" /\ cArr # NoArray)
        => /\ cOut.ok
           /\ cOut.arr.shape = cArr.shape
           /\ cOut.arr.data = [i \in 1..Len(cArr.data) |-> RoundedElement(cArr.data[i])]
           /\ cArr.dtype = "int" => cOut.arr.data = cArr.data

\* The extent hi - lo + 1 each well-formed segment of RawSegs denotes
GoodRawSegs ==
    { <<"(", "0", ",", "0", ")">>, <<"(", "0", ",", "1", ")">>,
      <<"(", "1", ",", "3", ")">> }
RawExtent(seg) ==
    IF seg = <<"(", "0", ",", "0", ")">> THEN 1
    ELSE IF seg = <<"(", "0", ",", "1", ")">> THEN 2
    ELSE 3

\* The text being decoded has a well-formed header whose extents multiply
\* to n, and a body of k tokens
TextHasCounts(n, k) ==
    \E q \in SeqsUpTo(GoodRawSegs, MaxRawRank), tail \in {<<>>, <<"\n">>} :
        /\ cText = RawTextOf(q, k, tail)
        /\ n = Product([i \in 1..Len(q) |-> RawExtent(q[i])])

\* The products of extents the headers of the raw texts reach
RawProducts ==
    {Product([i \in 1..Len(q) |-> RawExtent(q[i])]) :
        q \in SeqsUpTo(GoodRawSegs, MaxRawRank)}

\* C3 as stated: decoding fails with an error whenever the number of
\* (re,im) tokens in the body differs from the product of the extents given
\* in the header, with fewer tokens as with more, and no array is returned.
C3_TokenCountChecked ==
    (cPc = "done" /\ cArr = NoArray
       /\ \E n \in RawProducts, k \in 1..MaxTokens : n # k /\ TextHasCounts(n, k))
        => ~cOut.ok

\* C3 failing input: a header "(0,1)" with a body of one token has been
\* decoded by io._blitz2numpy, and an array with a slot no token filled was
\* returned
C3_Witness ==
    /\ cLib = "io"
    /\ cPc = "done"
    /\ cArr = NoArray
    /\ TextHasCounts(2, 1)
    /\ cOut.ok
    /\ cOut.arr.shape = <<2>>
    /\ cOut.arr.data[2] = Cplx(Nines, Thirteen)

\* What the decoders do check: a body with more tokens than the extents
\* allow is an error, in io.py and in BlitzArray alike.
SurplusTokenRejected ==
    (cPc = "done" /\ cArr = NoArray
       /\ \E n \in RawProducts, k \in 1..MaxTokens : n < k /\ TextHasCounts(n, k))
        => ~cOut.ok

\* C11: decoding fails, and returns no array, whenever a token of the body
\* is not "re,im" with two floating-point literals (text that is no number,
\* a missing comma, an extra comma); the tokens parsed before it are not
\* returned as a partial array.
C11_BadTokenRejected ==
    (cPc = "done" /\ cArr = NoArray /\ cText \in BadTokenTexts)
        => (~cOut.ok /\ cOut.arr = NoArray)

\* A body of three tokens for three elements whose last token has an extra
\* comma has been decoded
C11_Witness ==
    /\ cLib = "io"
    /\ cPc = "done"
    /\ cText = BadTokenText(3, <<3, 3>>,
                            <<"(", "1", ".", "0", ",", "2", ".", "0", ",", "3", ".",
                              "0", ")">>, <<>>)
    /\ ~cOut.ok

\* The numbers a block body holds, in the order they are written
Unpunctuated(text) ==
    [i \in 1..Len(text) |->
        IF text[i] \in {"(", ")", "[", "]", ","} THEN " " ELSE text[i]]
BodyNumbers(text) == FieldFloats(str_splitws(Unpunctuated(text)))
OneToEight == [i \in 1..8 |-> [ok |-> TRUE, v |-> IntFloat(i)]]

\* The example is decoded to [[1+2i, 3+4i], [5+6i, 7+8i]], and the body
\* written for that array holds the same values in the same order
ExampleCoded ==
    /\ (cLib = "io" /\ cPc = "done" /\ cText = ExampleText)
          => (cOut.ok /\ cOut.arr = ExampleArray)
    /\ (cLib = "io" /\ cPc = "reencoded" /\ cOut.arr = ExampleArray)
          => (Len(str_split1(cText, <<"\n">>)) = 2
              /\ BodyNumbers(str_split1(cText, <<"\n">>)[2]) = OneToEight)

DimLineIs(line) ==
    (cLib = "io" /\ cPc = "reencoded" /\ cOut.arr = ExampleArray)
        => str_split1(cText, <<"\n">>)[1] = line

\* C12 as stated: the example "(0,1) x (0,1)" with the body
\* "[ (1,2) (3,4) \n  (5,6) (7,8) ]" decodes to [[1+2i, 3+4i], [5+6i, 7+8i]]
\* (token p at row-major index p), and encoding that array gives exactly the
\* dimension line "(0,1) x (0,1)" and a body with the same values in order.
C12_ExampleAsStated ==
    ExampleCoded /\ DimLineIs(PyTo(ExampleText, 13))

\* C12, amended: as above, but the dimension line written is
\* "(0,1) x (0,1) ", with a space at its end.
C12_Example ==
    ExampleCoded /\ DimLineIs(PyTo(ExampleText, 13) \o <<" ">>)

\* The example has been decoded and written again
ExampleWritten ==
    << "(", "0", ",", "1", ")", " ", "x", " ", "(", "0", ",", "1", ")", " ",
       "\n", "[", " ", "(", "1", ".", "0", ",", "2", ".", "0", ")", " ", "(",
       "3", ".", "0", ",", "4", ".", "0", ")", " ", "\n", " ", " ", "(", "5",
       ".", "0", ",", "6", ".", "0", ")", " ", "(", "7", ".", "0", ",", "8",
       ".", "0", ")", " ", "]", "\n", "\n" >>
C12_Witness ==
    /\ cLib = "io"
    /\ cPc = "reencoded"
    /\ cOut.arr = ExampleArray
    /\ cText = ExampleWritten

\* A state vector has been saved to a text file and loaded from it
SavedAndLoaded ==
    /\ cLib = "statevector"
    /\ cPc = "done"
    /\ cArr # NoArray
    /\ Len(cArr.shape) \in 1..4

\* C14: for every state vector sv of rank 1 to 4 with time t, load_statevector
\* of the file save_statevector wrote returns a state vector that equals sv
\* elementwise and whose time equals t.
C14_SaveLoad ==
    SavedAndLoaded =>
       /\ cOut.ok
       /\ cOut.arr.shape = cArr.shape
       /\ cOut.arr.data = cArr.data
       /\ cSv.t.ok
       /\ cSv.t.v = cSv.time.v

\* A state vector of integers saved with the time 1234567890123.0 has come
\* back with the time 1234567890120.0
C14_Witness ==
    /\ SavedAndLoaded
    /\ cArr = ArangeArray(<<2, 3>>)
    /\ cSv.time.v = Thirteen
    /\ cOut.ok
    /\ cOut.arr.data = cArr.data
    /\ cSv.t.v = Flt(FALSE, <<1, 2, 3, 4, 5, 6, 7, 8, 9, 0, 1, 2>>, 13)

\* What saving and loading keeps: the shape, and the elements and the time
\* to the significant digits str() writes
SaveLoadToPrecision ==
    SavedAndLoaded =>
       /\ cOut.ok
       /\ cOut.arr.shape = cArr.shape
       /\ cOut.arr.data = [i \in 1..Len(cArr.data) |-> RoundedElement(cArr.data[i])]
       /\ cSv.t.ok
       /\ cSv.t.v = RoundSig(cSv.time.v, FloatStrPrecision)

\* C16: with a filename ending in ".svbin" and no ciobin extension,
\* load_statevector and save_statevector each raise IOError, and no file is
\* opened, read or written.
C16_NoCiobin ==
    (cLib = "statevector" /\ cSv.name = "svbin" /\ ~cSv.ciobin
        /\ cPc \notin {"array", "text"})
        => /\ cPc = "error"
           /\ ~cSv.opened
           /\ cOut = NoResult
           /\ cText = IF cArr = NoArray THEN SvFileText ELSE <<>>

\* save_statevector has raised IOError for a ".svbin" name
C16_Witness ==
    /\ cLib = "statevector"
    /\ cSv.name = "svbin"
    /\ ~cSv.ciobin
    /\ cArr = ArangeArray(<<2>>)
    /\ cPc = "error"
    /\ ~cSv.opened

\* C19: BlitzArray("(0,1)x(0,1)", "[ (1,2) (3,4) \n  (5,6) (7,8) ]") has the
\* dimensions ((0,1),(0,1)), the data [[1+2j, 3+4j], [5+6j, 7+8j]], and
\* prints as BlitzArray((0,1) x (0,1))
DocExample(dimstr) == cLib = "data" /\ cDims.str = dimstr
ExampleBuilt ==
    /\ cPc # "error"
    /\ (cPc = "done" /\ cText = ExampleBody)
           => /\ cDims.val = PyDimensions(<<<<0, 1>>, <<0, 1>>>>)
              /\ cOut.arr = ExampleArray
    /\ cPc = "printed" => cText = ClassName \o <<"(">> \o SpacedDims \o <<")">>
C19_DocExample == DocExample(UnspacedDims) => ExampleBuilt

\* The constructor has raised on the arguments of the docstring
C19_Witness ==
    /\ DocExample(UnspacedDims)
    /\ cText = ExampleBody
    /\ cPc = "error"
    /\ ~cDims.ok

\* With blanks around the x the array is built and printed as described
SpacedExample == DocExample(SpacedDims) => ExampleBuilt
SpacedPrinted ==
    /\ DocExample(SpacedDims)
    /\ cPc = "printed"
    /\ cOut.arr = ExampleArray
    /\ cDims.val = PyDimensions(<<<<0, 1>>, <<0, 1>>>>)
    /\ cText = ClassName \o <<"(">> \o SpacedDims \o <<")">>

\* The encoder has been called on an array no branch of it handles: rank 0,
\* and for BlitzArray._data2str rank 1 as well
Unsupported ==
    /\ cLib \in {"io", "BlitzArray"}
    /\ cArr # NoArray
    /\ cPc # "array"
    /\ Len(cArr.shape) = 0 \/ (cLib = "BlitzArray" /\ Len(cArr.shape) = 1)

SupportedShape ==
    (cLib = "io" /\ cArr # NoArray /\ cPc # "array" /\ Len(cArr.shape) >= 1)
        => cPc # "error"

\* The texts between a ")" and the next "(" behind it, from the ")" at p on
RECURSIVE GapsFrom(_, _), GapsTo(_, _, _)
GapsFrom(text, p) == IF p = -1 THEN <<>> ELSE GapsTo(text, p, str_find(text, <<"(">>, p))
GapsTo(text, p, q) ==
    IF q = -1 THEN <<>>
    ELSE <<SliceBetween(text, p + 1, q)>> \o GapsFrom(text, str_find(text, <<")">>, q))

\* The separators of the body: what stands between its tokens
BodyGaps(text) ==
    GapsFrom(text, str_find(text, <<")">>, str_find(text, <<"[">>, 0)))

\* The extent of the last axis, and of the last three axes together
RowLength(shape) == shape[Len(shape)]
GroupLength(shape) ==
    shape[Len(shape)] * shape[Len(shape) - 1] * shape[Len(shape) - 2]

\* The separator behind the k-th element in row-major order: a blank within
\* a row, " \n  " between rows and between 2-D blocks, "\n" between the
\* groups of a deeper axis
StatedGap(shape, k) ==
    IF k % RowLength(shape) # 0 THEN <<" ">>
    ELSE IF Len(shape) > 3 /\ k % GroupLength(shape) = 0 THEN <<"\n">>
    ELSE RowSep

\* The encoder has written the text of an array
Written(lib) == cLib = lib /\ cArr # NoArray /\ cPc \in {"text", "done"}

\* C23: rows and 2-D blocks are separated by " \n  ", the groups of every
\* deeper axis by a single "\n"
C23_Separators ==
    (Written("io") \/ Written("BlitzArray"))
        => \A k \in 1..Len(BodyGaps(cText)) : BodyGaps(cText)[k] = StatedGap(cArr.shape, k)

\* io._numpy2blitz on arange(2).reshape(2,1,1,1): " \n  " stands between the
\* two groups of the first axis
C23_Witness ==
    /\ Written("io")
    /\ cArr = ArangeArray(<<2, 1, 1, 1>>)
    /\ BodyGaps(cText) = <<RowSep>>

\* io._numpy2blitz writes " \n  " behind every row, at every depth
IoSeparators ==
    Written("io")
        => /\ Len(BodyGaps(cText)) = Product(cArr.shape) - 1
           /\ \A k \in 1..Len(BodyGaps(cText)) :
                 BodyGaps(cText)[k] = IF k % RowLength(cArr.shape) # 0 THEN <<" ">>
                                      ELSE RowSep

\* BlitzArray._data2str separates as stated, up to rank 4
BlitzArraySeparators ==
    (Written("BlitzArray") /\ Len(cArr.shape) <= 4)
        => \A k \in 1..Len(BodyGaps(cText)) : BodyGaps(cText)[k] = StatedGap(cArr.shape, k)

\* BlitzArray._data2str has written "\n" between two groups
BlitzArrayGroups ==
    /\ Written("BlitzArray")
    /\ cArr = ArangeArray(<<3, 1, 1, 1>>)
    /\ BodyGaps(cText) = << <<"\n">> >>

\* The tokens "(...)" of a text, from the "(" at p on
RECURSIVE TokensFrom(_, _), TokensTo(_, _, _)
TokensFrom(text, p) ==
    IF p = -1 THEN <<>> ELSE TokensTo(text, p, str_find(text, <<")">>, p))
TokensTo(text, p, q) ==
    IF q = -1 THEN <<>>
    ELSE <<SliceBetween(text, p, q + 1)>> \o TokensFrom(text, str_find(text, <<"(">>, q))

\* The tokens of the body, which starts at the "["
BodyTokensOf(text) ==
    TokensFrom(text, str_find(text, <<"(">>, str_find(text, <<"[">>, 0)))

\* The header: the first line without the blank io._numpy2blitz ends it with
HeaderOf(text) == str_rstrip(str_split1(text, <<"\n">>)[1], {" "})

\* An encoder has been called on an array of rank 1 or more
EncoderCalled(lib) ==
    cLib = lib /\ cArr # NoArray /\ cPc # "array" /\ Len(cArr.shape) >= 1

\* The header holds one pair (0,n-1) for every axis, and the body one token
\* for every element, in row-major order
HeaderAndBody ==
    /\ cPc # "error"
    /\ HeaderOf(cText) = str_join(DimSegs(ShapeDimensions(cArr.shape)), SepX)
    /\ Len(BodyTokensOf(cText)) = Product(cArr.shape)
    /\ \A k \in 1..Len(BodyTokensOf(cText)) :
          k <= Len(cArr.data)
          /\ BodyTokensOf(cText)[k] = TokenStr(cArr.data[k], cArr.dtype)

\* C24: for every array of rank 1 or more the encoder writes a header of
\* exactly one pair (0,ni-1) per axis and a body of exactly one token per
\* element, in row-major order
C24_HeaderAndBody == (EncoderCalled("io") \/ EncoderCalled("BlitzArray")) => HeaderAndBody

\* BlitzArray.ascii on arange(2).reshape(2,1,1,1): one token for two elements
C24_Witness ==
    /\ EncoderCalled("BlitzArray")
    /\ cArr = ArangeArray(<<2, 1, 1, 1>>)
    /\ cPc = "text"
    /\ Len(BodyTokensOf(cText)) = 1

\* io._numpy2blitz writes the header and the body as stated
IoHeaderAndBody == EncoderCalled("io") => HeaderAndBody

\* BlitzArray.ascii does for the ranks 2 and 3
BlitzArrayHeaderAndBody ==
    (EncoderCalled("BlitzArray") /\ Len(cArr.shape) \in {2, 3}) => HeaderAndBody

----------------------------------------------------------------------------
(* Properties of the scanners (SpecScan)                                    *)

Finished == sPc \in {"done", "error"}

\* The file holds rows and blocks only, at least one of them
PlainFile ==
    /\ sFile.items # <<>>
    /\ \A i \in 1..Len(sFile.items) : sFile.items[i] \in RowItems \cup BlockItems
RowsOnly ==
    /\ sFile.items # <<>>
    /\ \A i \in 1..Len(sFile.items) : sFile.items[i] \in RowItems

ItemKind(item) == IF item \in RowItems THEN "row" ELSE "block"

\* The offset in the data section at which the i-th item starts
RECURSIVE ItemOffset(_, _)
ItemOffset(items, i) ==
    IF i = 1 THEN 0 ELSE ItemOffset(items, i - 1) + Len(ItemText(items[i - 1]))

\* The calls made are those for the items, one each, in the order of the file
CallsFollow(items) ==
    /\ Len(sEvents) = Len(items)
    /\ \A i \in 1..Len(items) :
          i <= Len(sEvents) =>
             /\ sEvents[i].h = ItemKind(items[i])
             /\ sEvents[i].from = ItemOffset(items, i)

\* C2: for a data section of k rows and m blocks in any order (two blocks
\* directly after one another, a block first or last included) the scanner
\* makes exactly k row calls and m block calls, in the order of the file.
C2_ScanOrdering ==
    (sClient = "record" /\ Finished /\ PlainFile)
        => (sPc = "done" /\ CallsFollow(sFile.items))

\* The buffer scanner has passed the block that starts the data section to
\* the row handler, line by line
C2_Witness ==
    /\ sImpl = "reader"
    /\ sClient = "record"
    /\ sFile.head = OneParagraph
    /\ sFile.items = <<"ShortBlock", "SpaceRow">>
    /\ sPc = "done"
    /\ Len(sEvents) = 3
    /\ \A i \in 1..Len(sEvents) : sEvents[i].h = "row"

\* The line scanner of io.py does keep the order
LineScanOrdering ==
    (sImpl = "io" /\ sClient = "record" /\ Finished /\ PlainFile)
        => (sPc = "done" /\ CallsFollow(sFile.items))

\* The buffer scanners keep it when the data section starts with a row and
\* no block directly follows a block that has no blank line after it
BlockAfterRow(items) ==
    /\ items[1] \in RowItems
    /\ \A i \in 1..Len(items) : items[i] # "LongBlock"
    /\ \A i \in 2..Len(items) : items[i] \in BlockItems => items[i - 1] \in RowItems
BufferScanOrdering ==
    (sImpl \in BufferImpls /\ sClient = "record" /\ Finished /\ PlainFile
        /\ BlockAfterRow(sFile.items))
        => (sPc = "done" /\ CallsFollow(sFile.items))

\* The text a scanner is given: the file for _parse_cppqed, the data section
\* for _parsedatastr and the loop of Cppqed.load
Scanned == IF sImpl = "io" THEN sBuf ELSE sData
DataOffset == IF sImpl = "io" THEN Len(sBuf) - Len(sData) ELSE 0

\* A block marker at p with no "]" after it
CutMarker(p) ==
    /\ MatchAt(Scanned, BlockMarker, p)
    /\ str_find(Scanned, BlockClose, p) = -1

\* A block call whose text reaches over offset p of the scanned text
BlockCallOver(p) ==
    \E i \in 1..Len(sEvents) :
        /\ sEvents[i].h = "block"
        /\ sEvents[i].from + DataOffset <= p
        /\ p < sEvents[i].to + DataOffset

\* C4: scanning a buffer with a block marker (newline, "(") and no later "]"
\* raises an error, and the block handler is not called for that block.
C4_CutBlockRaises ==
    \A p \in 0..Len(Scanned) :
        (Finished /\ sData # <<>> /\ CutMarker(p))
            => (sPc = "error" /\ ~BlockCallOver(p + 1))

\* The buffer scanner has passed a cut block that directly follows a block
\* to the row handler and has ended without an error
C4_Witness ==
    /\ sImpl = "reader"
    /\ sClient = "record"
    /\ sFile.items = <<"SpaceRow", "ShortBlock", "CutBlock">>
    /\ sPc = "done"
    /\ Len(sEvents) = 4
    /\ sEvents[4].h = "row"

\* The line scanner of io.py raises for every cut block, and the buffer
\* scanners raise for a cut block that follows a row
CutAfterRow ==
    \E i \in 2..Len(sFile.items) :
        sFile.items[i] = "CutBlock" /\ sFile.items[i - 1] \in RowItems
CutBlockRaises ==
    /\ (sImpl = "io" /\ Finished) => C4_CutBlockRaises
    /\ (sImpl \in BufferImpls /\ Finished /\ CutAfterRow)
          => sPc = "error"

\* The position in sEvents of the j-th block call
BlockCalls == {i \in 1..Len(sEvents) : sEvents[i].h = "block"}
NthBlockCall(j) ==
    CHOOSE i \in BlockCalls : Cardinality({k \in BlockCalls : k <= i}) = j

\* The first numeric field of a row
FirstField(fields) == IF fields = <<>> THEN FloatFail ELSE float(fields[1])

\* The first numeric field of the last row call before call i
RowCallsBefore(i) == {k \in 1..i : sEvents[k].h = "row"}
TimeBefore(i) ==
    IF RowCallsBefore(i) = {} THEN FloatFail
    ELSE FirstField(str_splitws(sEvents[SetMax(RowCallsBefore(i))].text))

SvTimed(j, t) == t.ok /\ sSvs[j].t = t.v

\* C5: every state vector a loader has produced carries as its time the
\* first numeric field of the last row dispatched before its block; later
\* rows do not change it, and two blocks after the same row get the same time.
C5_TimeOfLastRow ==
    \A j \in 1..Len(sSvs) :
        Cardinality(BlockCalls) >= j /\ SvTimed(j, TimeBefore(NthBlockCall(j)))

\* Cppqed.load has cut the last digit off a time that no space follows
C5_Witness ==
    /\ sImpl = "Cppqed"
    /\ sFile.items = <<"LoneRow", "ShortBlock", "SpaceRow">>
    /\ sPc = "done"
    /\ Len(sSvs) = 1
    /\ sSvs[1].t = Flt(FALSE, <<2>>, 0)

\* The loaders of pycppqed do pair every block with that field
C5_PackageLoaders ==
    sImpl \in {"io", "reader"} => C5_TimeOfLastRow

\* The text of call i is the line of item i, its newline apart
LineOf(item) == str_rstrip(ItemText(item), {"\n"})
LinesFollow(items) ==
    /\ Len(sEvents) = Len(items)
    /\ \A i \in 1..Len(items) :
          i <= Len(sEvents) =>
             /\ sEvents[i].h = "row"
             /\ str_rstrip(sEvents[i].text, {"\n"}) = LineOf(items[i])

\* C6: a data section of numeric rows only is dispatched line by line, in
\* order, to the row handler, and the block handler is never called.
C6_RowsOnly ==
    (Finished /\ RowsOnly) => (sPc = "done" /\ LinesFollow(sFile.items))

C6_Witness ==
    /\ sImpl = "reader"
    /\ sFile.head = TwoParagraphs
    /\ sFile.items = <<"TabRow", "LoneRow", "SpaceRow">>
    /\ sPc = "done"
    /\ Len(sEvents) = 3
    /\ sEvents[2].text = <<"0", ".", "2", "5">>

\* The header a scanner has stored, as one text
HeaderText ==
    IF sHead.kind = "lines" THEN str_join(sHead.lines, <<"\n">>) ELSE sHead.text

\* The comment section is followed by a row or a block
DataFirst ==
    /\ sFile.items # <<>>
    /\ sFile.items[1] \in RowItems \cup BlockItems \cup {"CutBlock"}

\* C7: the header is the prefix of the buffer before the blank line that ends
\* the comment section (compared here without the newlines at its end), the
\* data section is the text after that blank line; a buffer that starts with
\* a numeric row has an empty header and is the data section as a whole.
C7_HeaderDelimited ==
    /\ (sHead.kind # "none" /\ DataFirst /\ sFile.head # <<>>)
          => /\ str_rstrip(HeaderText, {"\n"}) = str_rstrip(sFile.head, {"\n"})
             /\ sData = ItemsText(sFile.items)
    /\ (sHead.kind # "none" /\ DataFirst /\ sFile.head = <<>>
           /\ sFile.items[1] \in RowItems)
          => /\ HeaderText = <<>>
             /\ sData = sBuf

\* CppqedOutputReader.read has stored buf[:-2] as the comments of a file
\* without comments
C7_Witness ==
    /\ sImpl = "reader"
    /\ sFile.head = <<>>
    /\ sFile.items = <<"SpaceRow">>
    /\ sHead.kind = "text"
    /\ sHead.text = <<"0", ".", "5", " ">>
    /\ sData = sBuf

\* With a comment section all three scanners split the buffer as stated
HeaderWithComments ==
    (sHead.kind # "none" /\ DataFirst /\ sFile.head # <<>>)
        => /\ str_rstrip(HeaderText, {"\n"}) = str_rstrip(sFile.head, {"\n"})
           /\ sData = ItemsText(sFile.items)

\* The position in sEvents of the j-th row call
RowCalls == {i \in 1..Len(sEvents) : sEvents[i].h = "row"}
NthRowCall(j) ==
    CHOOSE i \in RowCalls : Cardinality({k \in RowCalls : k <= i}) = j

Loaders == {"load_cppqed", "convert2python"}

\* The record holds the fields of the row: tabs and blanks both separate
\* fields, so these are the whitespace-separated fields of the whole row
RecordOf(rec, fields) ==
    /\ RowOk(<<fields>>)
    /\ Flatten(rec.parts) = RowValues(<<fields>>)[1]
    /\ fields # <<>> =>
          (rec.parts[1] # <<>> /\ rec.parts[1][1] = fields[1].v)

RecordsFollow ==
    /\ Len(sRecs) <= Cardinality(RowCalls)
    /\ Finished /\ sPc = "done" => Len(sRecs) = Cardinality(RowCalls)
    /\ \A j \in 1..Len(sRecs) :
          j <= Cardinality(RowCalls) =>
             RecordOf(sRecs[j], FieldFloats(str_splitws(sEvents[NthRowCall(j)].text)))

\* C13: a numeric row becomes one record holding, in order, every
\* whitespace-separated field of every tab-separated part of the row, the
\* first field of the first part being its time; the buffer
\* "0.0\t1.0\n0.1\t1.1\n" yields exactly two records, with times 0.0 and 0.1.
C13_RowRecords ==
    sClient \in Loaders =>
       /\ RecordsFollow
       /\ (Finished /\ sFile.items = ExampleRows) =>
             /\ sPc = "done"
             /\ Len(sRecs) = 2
             /\ sRecs[1].parts[1][1] = FloatZero
             /\ sRecs[2].parts[1][1] = Flt(FALSE, <<1>>, 0)

\* The example has been loaded: two records of two fields each
C13_Witness ==
    /\ sClient = "load_cppqed"
    /\ sFile.head = <<>>
    /\ sFile.items = ExampleRows
    /\ sPc = "done"
    /\ Len(sRecs) = 2
    /\ Flatten(sRecs[2].parts) = <<Flt(FALSE, <<1>>, 0), Flt(FALSE, <<1, 1>>, 1)>>


\* The calls of test_splitstatevector, with split_cppqed called as
\* split_cppqed(readpath, writepath), on a file load_cppqed has loaded
SplitAfterLoad == sKept.ok /\ sKept.header

\* The records of the rows, as load_cppqed returns them
RowsOf(recs) == [i \in 1..Len(recs) |-> recs[i].parts]

\* The state vectors loaded from the written files are those of the blocks
SvsRecovered(loaded, svs) ==
    /\ Len(loaded) = Len(svs)
    /\ \A i \in 1..Len(loaded) :
          /\ loaded[i].ok
          /\ i <= Len(svs)
          /\ loaded[i].arr = svs[i].arr
          /\ loaded[i].t.v = svs[i].t

\* C15: split_cppqed on a file load_cppqed has loaded returns, the written
\* trajectory file loads to the same rows, and the written state-vector
\* files, one per array block, load to the same sequence of state vectors
C15_SplitRecovers ==
    /\ (SplitAfterLoad /\ sStage = "split" /\ Finished) => sPc = "done"
    /\ (SplitAfterLoad /\ sStage = "compared")
           => /\ sPc = "done"
              /\ RowsOf(sRecs) = RowsOf(sKept.recs)
              /\ Len(SvFilesOf(sFiles)) = Len(sKept.svs)
              /\ SvsRecovered(sKept.loaded, sKept.svs)

\* Two blocks behind the same row: the second file has replaced the first
C15_Witness ==
    /\ sStage = "compared"
    /\ SplitAfterLoad
    /\ sKept.file = [head |-> <<>>, items |-> <<"SpaceRow", "ShortBlock", "LongBlock">>]
    /\ Len(sKept.svs) = 2
    /\ Len(SvFilesOf(sFiles)) = 1

\* At most one block behind every row, and a blank behind every time
OneBlockPerRow(items) ==
    /\ \A i \in 1..Len(items) : items[i] \in RowItems => items[i] \in {"SpaceRow"}
    /\ \A i \in 1..Len(items) - 1 :
          items[i] \in BlockItems => items[i + 1] \notin BlockItems

\* With one block per row at most, and blanks behind the times, the rows and
\* the state vectors are recovered
SplitRecoversOnePerRow ==
    (SplitAfterLoad /\ sStage = "compared" /\ OneBlockPerRow(sKept.file.items))
        => /\ sPc = "done"
           /\ RowsOf(sRecs) = RowsOf(sKept.recs)
           /\ SvsRecovered(sKept.loaded, sKept.svs)

\* A row, a block, a row: one file, loaded to the state vector of the block
SplitRecovered ==
    /\ sStage = "compared"
    /\ SplitAfterLoad
    /\ sKept.file = [head |-> OneParagraph,
                     items |-> <<"SpaceRow", "ShortBlock", "SpaceRow">>]
    /\ Len(sKept.loaded) = 1
    /\ Len(sRecs) = 2

\* C20: when split_cppqed raises, no file has been written
C20_NothingWritten ==
    (sClient = "split_cppqed" /\ sPc = "error") => sFiles = <<>>

\* A row, a block and a block that is cut: the file of the first block is
\* there when the parse raises
C20_Witness ==
    /\ sClient = "split_cppqed"
    /\ sStage = "split"
    /\ sPc = "error"
    /\ sKept.file = [head |-> <<>>, items |-> <<"SpaceRow", "ShortBlock", "CutBlock">>]
    /\ Len(sFiles) = 1
    /\ sFiles[1].name # TrajectoryName

\* The trajectory file is written behind the parse only
TrajectoryWrittenLast ==
    (sClient = "split_cppqed" /\ sStage = "split")
        => NamedFiles(sFiles, TrajectoryName) = {}


----------------------------------------------------------------------------
(* Properties of the state vectors (SpecVec)                                *)

\* The time handed to the constructor, 0 when none is
TimeGiven == IF vArgs.time # NoTime THEN vArgs.time ELSE ZeroTime

\* C17: a StateVector built from data of shape (n1,...,nk) reports the
\* dimensions ((0,n1-1),...,(0,nk-1)) and the time given at construction,
\* 0 when none is given
C17_DimensionsAndTime ==
    vPc = "built"
        => /\ vSv.dimensions = PyDimensions(ShapeDimensions(vData.shape))
           /\ vSv.time = TimeGiven

\* statevector.StateVector((0,1,2,3), 1) reports the shape
C17_Witness ==
    /\ vClass = "statevector"
    /\ vPc = "built"
    /\ vData = ArangeInts(<<4>>)
    /\ vArgs = [kind |-> "tuple", time |-> [dtype |-> "int", v |-> IntFloat(1)],
                datatime |-> NoTime]
    /\ vSv.dimensions = ShapeTuple(<<4>>)
    /\ vSv.time = vArgs.time

\* data.StateVector reports the pairs and the time; statevector.StateVector
\* reports the shape, and the time unless the data brings one and none is
\* given
BuiltAsCoded ==
    vPc = "built"
        => /\ vClass = "data" => C17_DimensionsAndTime
           /\ vClass = "statevector"
                => /\ vSv.dimensions = ShapeTuple(vData.shape)
                   /\ (vArgs.time # NoTime \/ vArgs.datatime = NoTime)
                          => vSv.time = TimeGiven

\* The coordinate along the axis ax of the element at offset p
Coord(p, shape, ax) == (p \div Product(SubSeq(shape, ax + 2, Len(shape)))) % shape[ax + 1]

\* The axes that are not reduced, in their order
KeptAxes(ndim, indices) ==
    SelectSeq([i \in 1..ndim |-> i - 1], LAMBDA ax : \A j \in 1..Len(indices) : indices[j] # ax)

RECURSIVE SeqSum(_)
SeqSum(s) == IF s = <<>> THEN 0 ELSE s[1] + SeqSum(Tail(s))

\* The elements of a at the offsets whose kept coordinates are those of q
Summands(a, kept, keptshape, q) ==
    SelectSeq([p \in 1..Len(a.vals) |-> p - 1],
              LAMBDA p : \A i \in 1..Len(kept) :
                            Coord(p, a.shape, kept[i]) = Coord(q, keptshape, i - 1))
SummedVals(a, offsets) == [i \in 1..Len(offsets) |-> a.vals[offsets[i] + 1]]

SumOverRest(a, kept, keptshape) ==
    IntArray(keptshape,
             [q \in 1..Product(keptshape) |->
                 SeqSum(SummedVals(a, Summands(a, kept, keptshape, q - 1)))])

\* The array summed over the axes listed
SummedOver(a, indices) ==
    SumOverRest(a, KeptAxes(Len(a.shape), indices),
                [i \in 1..Len(KeptAxes(Len(a.shape), indices)) |->
                    a.shape[KeptAxes(Len(a.shape), indices)[i] + 1]])

\* C18: reduce(indices, norm=False) sums over the given axes: the rank
\* drops by the number of indices, the other axes keep their order, and the
\* order of the indices does not matter
C18_ReduceSums ==
    vPc = "reduced"
        => /\ vRed.ok
           /\ Len(vRed.arr.shape) = Len(vData.shape) - Len(vRed.indices.seq)
           /\ vRed.arr = SummedOver(vData, vRed.indices.seq)

\* arange(12).reshape(2,3,2) reduced over the axes (0, 2), listed in
\* ascending order
C18_Witness ==
    /\ vPc = "reduced"
    /\ vData = ArangeInts(<<2, 3, 2>>)
    /\ vRed.indices = ListIndex(<<0, 2>>)
    /\ vRed.arr = IntArray(<<3>>, <<14, 22, 30>>)


\* The buffer starts with a comment or a blank line, and holds no blank
\* line that would end the comment section
HeaderOpen ==
    /\ sStage = "first"
    /\ sBuf # <<>>
    /\ sBuf[1] \in {"\n", "#"}
    /\ str_find(sBuf, BlankLine, 0) = -1

\* C22: when no blank line follows the leading comments, delimiting the
\* header ends with an error and returns no split into header and data
C22_HeaderTruncated == HeaderOpen => sPc \in {"header", "error"}

\* CppqedOutputReader.read has split "# k\n0.5 1\n" at offset 1
C22_Witness ==
    /\ sImpl = "reader"
    /\ sFile = [head |-> <<>>, items |-> <<"CommentLine", "SpaceRow">>]
    /\ HeaderOpen
    /\ sPc = "scan"
    /\ sHead = HeadText(PyTo(sBuf, -1))
    /\ sData = PyFrom(sBuf, 1)

\* What the loops do instead: find() returns -1, so pos becomes 1, where
\* the loop of read() and load() either ends or stays for ever; the loop of
\* _parse_cppqed ends at the first data line
OpenHeaderAsCoded ==
    HeaderOpen
        => /\ sImpl \in BufferImpls
               => /\ sPc = "header" => sPos \in {0, 1}
                  /\ sPc # "header"
                         => (sBuf[2] \notin {"\n", "#"} /\ sData = PyFrom(sBuf, 1))
           /\ (sImpl = "io" /\ sPc \notin {"header", "error"})
                  => sHead.text \o sData = sBuf

\* With "#\n" first the loop of read() is at pos = 1 and its next
\* iteration leaves pos at 1
HeaderLoopStays ==
    /\ sImpl = "reader"
    /\ sFile = [head |-> <<>>, items |-> <<"BareComment", "SpaceRow">>]
    /\ sPc = "header"
    /\ sPos = 1
    /\ sBuf[sPos + 1] \in {"\n", "#"}
    /\ str_find(sBuf, BlankLine, sPos) + 2 = sPos


\* The offset of the opening "(" of the block a call is about: the first
\* "(" behind the newline before the text
e_open(e) == str_find(sData, <<"(">>, Max2(e.from - 1, 0))

\* The block calls of the buffer scanners
BufferBlockCalls ==
    {i \in 1..Len(sEvents) : sImpl \in BufferImpls /\ sEvents[i].h = "block"}

\* The text of the call is the data section from offset from up to offset
\* to, it ends with the first "]" behind its start, and the newline stands
\* before it
BlockTextEnds(e) ==
    /\ e.text = SliceBetween(sData, e.from, e.to)
    /\ e.text # <<>>
    /\ e.text[Len(e.text)] = "]"
    /\ str_find(e.text, BlockClose, 0) = Len(e.text) - 1
    /\ e.from >= 1
    /\ sData[e.from] = "\n"

\* C25 as stated: the text handed to the block handler starts just behind
\* the opening "(" of the block and ends with the closing "]"
C25_BlockTextAsStated ==
    \A i \in BufferBlockCalls :
        /\ BlockTextEnds(sEvents[i])
        /\ e_open(sEvents[i]) = sEvents[i].from - 1

\* C25, amended: the text starts with the opening "(" of the block, which
\* stands just behind the newline, and ends with the closing "]"
C25_BlockText ==
    \A i \in BufferBlockCalls :
        /\ BlockTextEnds(sEvents[i])
        /\ sEvents[i].text[1] = "("
        /\ e_open(sEvents[i]) = sEvents[i].from

\* CppqedOutputReader._parsedatastr has handed the block behind a row to
\* the handler
C25_Witness ==
    /\ sImpl = "reader"
    /\ sClient = "record"
    /\ sFile = [head |-> OneParagraph, items |-> <<"SpaceRow", "ShortBlock">>]
    /\ sPc = "done"
    /\ \E i \in BufferBlockCalls :
          sEvents[i].text = PyTo(ShortBlock, -1) /\ sEvents[i].from = Len(SpaceRow)

----------------------------------------------------------------------------
(* C26: the cursor of the block scanner                                     *)

\* An iteration of the loop of _parsedatastr after which the loop goes on
\* leaves pos behind the place it began at
PosIncreases ==
    (sImpl \in BufferImpls /\ sPc = "scan" /\ sPc' = "scan") => sPos' > sPos

\* The texts handed to the handlers lie one behind the other in the data
\* section, none overlapping another
HandedOnce ==
    \A i \in 1..Len(sEvents) : \A j \in 1..Len(sEvents) :
        i < j => (sEvents[i].from <= sEvents[i].to /\ sEvents[i].to <= sEvents[j].from)

\* Every text handed to a handler is the part of the data section at its
\* place
HandedFromData ==
    \A i \in 1..Len(sEvents) :
        sEvents[i].text = PySlice(sData, sEvents[i].from, sEvents[i].to)

\* The cursor never passes the end of the data section by more than one
PosBounded == sPc = "scan" => (0 <= sPos /\ sPos <= Len(sData) + 1)

\* C26: in the block scanner pos strictly increases on every iteration and
\* stays within one of the end of the buffer, so that the loop makes no
\* more iterations than the buffer has characters, and no character of the
\* data section is handed to a handler more than once
C26_CursorAdvances ==
    /\ [][PosIncreases]_vars
    /\ [](sImpl \in BufferImpls => (PosBounded /\ HandedOnce /\ HandedFromData))

\* The scanner has gone through two iterations that found a block and has
\* left the loop
C26_Witness ==
    /\ sImpl = "reader"
    /\ sPc = "done"
    /\ Cardinality(BufferBlockCalls) >= 2
    /\ sPos > 0

----------------------------------------------------------------------------
(* C27: the two scanners on the same file                                   *)

\* A well-formed output file: a comment section that a blank line ends,
\* then rows and blocks, every block ending in " ]" and a newline, with or
\* without a blank line after it
WellFormed == sFile.head \in {OneParagraph, TwoParagraphs} /\ PlainFile

\* A handler call as its kind and its text without the newlines at its end
Dispatch(h, text) == [h |-> h, text |-> str_rstrip(text, {"\n"})]

\* The calls a scanner has made
Dispatched == [i \in 1..Len(sEvents) |-> Dispatch(sEvents[i].h, sEvents[i].text)]

\* One call for every item of the file, in the order of the file
ItemsDispatch(items) ==
    [i \in 1..Len(items) |-> Dispatch(ItemKind(items[i]), ItemText(items[i]))]

\* The scanner has made, for a well-formed file, the calls for its items
SameDispatch ==
    (sClient = "record" /\ Finished /\ WellFormed)
        => (sPc = "done" /\ Dispatched = ItemsDispatch(sFile.items))

\* C27: for every well-formed output file io._parse_cppqed and
\* CppqedOutputReader._parsedatastr make the same sequence of row calls and
\* block calls: each makes the calls for the rows and blocks of the file
C27_SameDispatch == sImpl \in {"io", "reader"} => SameDispatch

\* _parsedatastr has handed the blank line after a block to the row
\* handler, as a row of its own
C27_Witness ==
    /\ sImpl = "reader"
    /\ sClient = "record"
    /\ sFile = [head |-> OneParagraph, items |-> <<"SpaceRow", "LongBlock", "SpaceRow">>]
    /\ sPc = "done"
    /\ Len(sEvents) = 4
    /\ Dispatched[3] = Dispatch("row", <<>>)

\* io._parse_cppqed makes the calls for the items of every well-formed file
LineDispatch == sImpl = "io" => SameDispatch

\* _parsedatastr does when every block follows a row and no blank line
\* follows a block
BufferDispatch ==
    (sImpl = "reader" /\ sFile.items # <<>> /\ BlockAfterRow(sFile.items)) => SameDispatch

----------------------------------------------------------------------------
(* C28: a block before the first row                                        *)

AnyRowItems == RowItems \cup {"ZeroRow", "TenthRow"}

\* The file holds an array block with no row before it
BlockBeforeRows(items) ==
    \E i \in 1..Len(items) :
        /\ items[i] \in BlockItems
        /\ \A j \in 1..(i - 1) : items[j] \notin AnyRowItems

\* load_cppqed or split_cppqed is parsing, or has parsed, such a file
BlockFirstParsed ==
    /\ sImpl = "io"
    /\ sClient \in {"load_cppqed", "split_cppqed"}
    /\ BlockBeforeRows(sFile.items)

\* C28: an array block that stands before any numeric row is rejected with
\* an error by load_cppqed and by split_cppqed: the call does not return,
\* no state vector gets a time, and split_cppqed writes no file
C28_BlockBeforeRows ==
    BlockFirstParsed
        => /\ sPc # "done"
           /\ sSvs = <<>>
           /\ sFiles = <<>>
           /\ sStage \in {"first", "split"}
           /\ \A i \in 1..Len(sEvents) : sEvents[i].h = "block" => sPc = "error"

\* split_cppqed has raised at the block that starts the file, after
\* load_cppqed had
C28_Witness ==
    /\ sClient = "split_cppqed"
    /\ sStage = "split"
    /\ sFile = [head |-> OneParagraph, items |-> <<"ShortBlock", "SpaceRow">>]
    /\ sPc = "error"
    /\ ~sKept.ok
    /\ sFiles = <<>>
    /\ Len(sEvents) = 1
    /\ sEvents[1].h = "block"

----------------------------------------------------------------------------
(* C29, C30: the Animation window (SpecAnim, SpecAnimIdle)                  *)

\* Every step the last handler asked the canvas to draw is a frame
DrawsInRange == \A i \in 1..Len(aDraws) : 0 <= aDraws[i] /\ aDraws[i] <= aSteps - 1

\* C29: for an Animation with steps >= 1, after any sequence of play
\* clicks, pause clicks, idle ticks, scrolls with any value, resize events
\* and save_movie calls, 0 <= step <= steps-1 whenever the canvas is asked
\* to draw a step
C29_StepInRange == aSteps >= 1 => DrawsInRange

\* After save_movie the window is resized: the canvas is asked to draw the
\* step steps
C29_Witness ==
    /\ aSteps = 2
    /\ aLast = "resize"
    /\ aStep = 2
    /\ aDraws = <<2>>

\* save_movie itself draws frames only, and leaves step at steps; a tick
\* of the idle callback behind it draws nothing
MovieDrawsFrames ==
    aLast = "save" => (aStep = aSteps /\ DrawsInRange /\ Len(aDraws) \in {0, aSteps + 1})

\* A step drawn that is no frame is the step steps that save_movie left
OutOfRangeAfterMovie ==
    /\ 0 <= aStep
    /\ aStep <= aSteps
    /\ ~DrawsInRange => (aStep = aSteps /\ aLast = "resize" /\ aDraws = <<aSteps>>)

\* The play button was clicked into playing, and no event of the user has
\* followed
PlayClicked(n) == aLast = "play" /\ aInputs = n

\* The animation stands at the last frame, the button shows "play", and no
\* idle callback is registered
Stopped ==
    /\ aStep = aSteps - 1
    /\ aButton = Button(FALSE, "play")
    /\ aIdle = 0

\* A tick of the idle callback moves step on by one and draws that step,
\* or stops the animation at the last frame
TickAdvances ==
    (aLast = "play" /\ aInputs' = aInputs)
        => \/ aStep' = aStep + 1 /\ aDraws' = <<aStep + 1>> /\ aButton' = aButton
           \/ aStep' = aStep /\ Stopped'

\* C30: after play is clicked, and with no further event of the user, the
\* idle callback moves step on by one per tick and in the end stops at
\* step = steps-1; the play button is then back in its not-playing state
\* and no idle callback is registered
C30_PlaysToEnd ==
    /\ [][TickAdvances]_vars
    /\ \A n \in 0..MaxInputs :
          (PlayClicked(n)) ~> ((PlayClicked(n) /\ Stopped) \/ aInputs # n)

\* The animation of three frames has played from the first to the last
\* and stopped
C30_Witness ==
    /\ aSteps = 3
    /\ aLast = "play"
    /\ aInputs = 1
    /\ Stopped
    /\ aPlay = NoSource
    /\ aDraws = <<>>

=============================================================================
